---- MODULE Spec2Model ----
(***************************************************************************)
(* Model of the grubengeraet extractor: the range-partitioned run of       *)
(* extractor/__main__.py over scraper.construct_dataframe, the per-message *)
(* extractors of scraper.py and the rule compliance evaluator              *)
(* scraper.rules_reworked.                                                 *)
(*                                                                         *)
(* Spec        : one run of the extractor command line (sequential or      *)
(*               parallel), from argument checking to the output step.     *)
(* SpecRules   : the per-message text steps split_words / rules_reworked / *)
(*               rulebreak_reasons, on contents drawn from a small         *)
(*               alphabet.                                                 *)
(* SpecParse   : one call of parse_range on a range string.                *)
(* SpecCall    : one direct call of construct_dataframe.                   *)
(* SpecPages   : the page arithmetic applied to one post number.           *)
(* SpecListing : two runs on one directory under every listing order.      *)
(* SpecMessage : one message in the loop body of construct_dataframe, from *)
(*               get_post_id to series_list.append.                        *)
(* SpecClean   : clean_emojis called twice on one message.                 *)
(***************************************************************************)
EXTENDS Integers, Sequences, FiniteSets, TLC

\* ------------------------------------------------------------------ bounds
\* Largest thread: the directory holds the page files 1..N for N <= MaxPage.
MaxPage == 10
\* Largest value given to -j / --jobs.
MaxJobs == 3
\* Largest value os.cpu_count() returns.
MaxCpu == 2
\* Longest message text drawn character by character.
MaxLen == 3
\* Most username anchors, reactor names, emoji images, quote blocks and
\* spoilers of one message.
MaxAnchors == 3
MaxNames == 4
MaxSmilies == 3
MaxQuotes == 2
MaxSpoilers == 2
\* Most page files of a directory whose listing order is varied.
MaxListed == 3
\* Largest word_count handed to rules_reworked by a direct caller.
MaxWordCount == 6
\* Most comma separated components of a range string given to parse_range.
MaxParts == 4

\* ------------------------------------------------------------ Range Model
\* Python's None for an optional range argument, and range / list values.
\* A range and a list answer `x in r` and bool(r) alike, so both are kept as
\* the sequence of their values.
None == [kind |-> "None", vals |-> <<>>]

\* len(range(...)) with the stop value counted in.
range_len_stop_inclusive(start, stop, step) ==
    IF step > 0
    THEN (IF stop >= start THEN ((stop - start) \div step) + 1 ELSE 0)
    ELSE (IF start >= stop THEN ((start - stop) \div (0 - step)) + 1 ELSE 0)

\* len(range(start, stop, step)), step # 0.
range_len(start, stop, step) ==
    IF step > 0
    THEN (IF stop > start THEN ((stop - start - 1) \div step) + 1 ELSE 0)
    ELSE (IF start > stop THEN ((start - stop - 1) \div (0 - step)) + 1 ELSE 0)

\* range(start, stop, step) as the sequence of its values.
range(start, stop, step) ==
    [kind |-> "range",
     vals |-> [i \in 1..range_len(start, stop, step) |-> start + (i - 1) * step]]

\* parse_range on the comma separated integer components of a range string:
\* range(*nums) with 2 or 3 components.
parse_range(parts) ==
    IF Len(parts) = 2 THEN range(parts[1], parts[2], 1)
    ELSE range(parts[1], parts[2], parts[3])

\* bool(x) of an optional range / list argument: None and empty are falsy.
Truthy(sel) == sel.kind # "None" /\ Len(sel.vals) > 0

\* x in sel, for a range or a list.
In(x, sel) == \E i \in 1..Len(sel.vals) : sel.vals[i] = x

\* post_num // 20 + 1 in place of the ceiling.
get_page_for_message_floor(post_num) == (post_num \div 20) + 1

\* math.ceil(post_num / 20)
get_page_for_message(post_num) ==
    IF post_num % 20 = 0 THEN post_num \div 20 ELSE (post_num \div 20) + 1

get_first_post_from_page(page_num) == page_num * 20 - 19

get_last_post_from_page(page_num) == page_num * 20

\* ------------------------------------------------------- directory entries
\* A directory entry: digits is re.findall(r"\d+", name)[0] as a string of
\* decimal digits (<<>> when the name holds no digit and [0] raises
\* IndexError), is_dir tells a subdirectory from a file, posts are the post
\* numbers of the message articles of the file in document order and
\* data_content their data-content attributes: "post" for "post-<digits>",
\* "other" for a value without that pattern, "absent" for no attribute.

\* The decimal string of n >= 0.
RECURSIVE DecimalString(_)
DecimalString(n) ==
    IF n < 10 THEN <<n>> ELSE DecimalString(n \div 10) \o <<n % 10>>

\* int(s) of a decimal digit string.
RECURSIVE int(_)
int(s) ==
    IF Len(s) = 0 THEN 0
    ELSE int(SubSeq(s, 1, Len(s) - 1)) * 10 + s[Len(s)]

\* Python's str < str: code point by code point, a proper prefix is smaller.
RECURSIVE StrLess(_, _)
StrLess(a, b) ==
    IF Len(a) = 0 THEN Len(b) > 0
    ELSE IF Len(b) = 0 THEN FALSE
    ELSE IF a[1] # b[1] THEN a[1] < b[1]
    ELSE StrLess(Tail(a), Tail(b))

\* ---------------------------------------------------------- range strings
\* A range string is a sequence of characters: decimal digits, the comma,
\* the minus sign and a letter.
DigitChars == {"0", "1", "2", "5"}

DigitValue(c) ==
    IF c = "0" THEN 0 ELSE IF c = "1" THEN 1 ELSE IF c = "2" THEN 2 ELSE 5

\* str.split(sep): the pieces between the separators; "" gives [""].
RECURSIVE split(_, _)
split(s, sep) ==
    IF \A i \in 1..Len(s) : s[i] # sep THEN <<s>>
    ELSE LET k == CHOOSE i \in 1..Len(s) :
                     s[i] = sep /\ \A j \in 1..(i - 1) : s[j] # sep
         IN  <<SubSeq(s, 1, k - 1)>> \o split(SubSeq(s, k + 1, Len(s)), sep)

\* int(s) of a str: an optional sign before one or more decimal digits;
\* anything else raises ValueError.
py_int(s) ==
    LET neg == Len(s) > 0 /\ s[1] = "-"
        body == IF neg THEN Tail(s) ELSE s
        digits == [i \in 1..Len(body) |-> DigitValue(body[i])]
    IN  IF Len(body) = 0 \/ \E i \in 1..Len(body) : body[i] \notin DigitChars
        THEN [status |-> "ValueError", val |-> 0]
        ELSE [status |-> "ok",
              val |-> IF neg THEN 0 - int(digits) ELSE int(digits)]

\* len(parts) not in (2, 3), the test left out.
invalid_len_unchecked(parts) == FALSE

\* if len(parts) not in (2, 3): raise ValueError("Invalid rangestring")
invalid_len(parts) == Len(parts) \notin {2, 3}

\* range(*nums): one to three numbers (TypeError otherwise); a step of 0
\* raises ValueError.
range_call(nums) ==
    IF Len(nums) \notin 1..3 THEN [status |-> "TypeError", val |-> None]
    ELSE IF Len(nums) = 1 THEN [status |-> "ok", val |-> range(0, nums[1], 1)]
    ELSE IF Len(nums) = 2 THEN [status |-> "ok", val |-> range(nums[1], nums[2], 1)]
    ELSE IF nums[3] = 0 THEN [status |-> "ValueError", val |-> None]
    ELSE [status |-> "ok", val |-> range(nums[1], nums[2], nums[3])]

\* get_post_id with "0" returned for a message without id.
get_post_id_sentinel(message) ==
    IF message.data_content = "post" THEN [status |-> "ok", val |-> "post"]
    ELSE [status |-> "ok", val |-> "0"]

\* re.search(r"post-(\d+)", message["data-content"]): the id, or the
\* exception of a missing attribute / a value without the pattern.
get_post_id(message) ==
    IF message.data_content = "absent" THEN [status |-> "KeyError", val |-> ""]
    ELSE IF message.data_content = "other" THEN [status |-> "ValueError", val |-> ""]
    ELSE [status |-> "ok", val |-> "post"]

\* The archived page file of page n: named by its page number, holding the
\* posts 20n-19 .. 20n of the thread.
PageFile(n) ==
    [digits |-> DecimalString(n), is_dir |-> FALSE,
     posts |-> [i \in 1..20 |-> get_first_post_from_page(n) + i - 1],
     data_content |-> [i \in 1..20 |-> "post"]]

\* The page file of page n whose second message has no usable data-content.
BrokenPageFile(n, value) ==
    [PageFile(n) EXCEPT !.data_content[2] = value]

\* A subdirectory whose name holds a digit run, and one whose name holds none.
SubDirDigits ==
    [digits |-> <<0>>, is_dir |-> TRUE, posts |-> <<>>, data_content |-> <<>>]
SubDirPlain ==
    [digits |-> <<>>, is_dir |-> TRUE, posts |-> <<>>, data_content |-> <<>>]

\* The directories of a run: the pages 1..n of a thread, alone or beside one
\* subdirectory, or with a message without id on page 2.
Directories ==
    { {PageFile(p) : p \in 1..n} \cup extra :
        n \in 0..MaxPage, extra \in {{}, {SubDirDigits}, {SubDirPlain}} }
    \cup
    { {PageFile(p) : p \in (1..n) \ {2}} \cup {BrokenPageFile(2, value)} :
        n \in 2..MaxPage, value \in {"absent", "other"} }

\* sorted(Path(path).iterdir(), key=lambda s: re.findall(r"\d+", s.name)[0]):
\* ascending by the digit STRING. (Entries with equal keys keep the listing
\* order of the file system; one of them is then a subdirectory.)
RECURSIVE sorted_iterdir(_)
sorted_iterdir(entries) ==
    IF entries = {} THEN <<>>
    ELSE LET first == CHOOSE e \in entries :
                         \A o \in entries : ~StrLess(o.digits, e.digits)
         IN  <<first>> \o sorted_iterdir(entries \ {first})

\* ------------------------------------------------------ construct_dataframe
\* The range checks of one file: TRUE when the file is skipped.
file_skipped(file, pagerange, postrange) ==
    LET page_num == int(file.digits) IN
    \/ file.is_dir
    \/ Truthy(pagerange) /\ ~In(page_num, pagerange)
    \/ /\ Truthy(postrange)
       /\ ~In(get_first_post_from_page(page_num), postrange)
       /\ ~In(get_last_post_from_page(page_num), postrange)

\* file_records with the page number read from the first digit of the file
\* name alone (r"\d" for r"\d+").
file_records_first_digit(file, pagerange, postrange) ==
    IF file_skipped(file, pagerange, postrange) THEN <<>>
    ELSE LET page_num == file.digits[1]
             kept == SelectSeq(file.posts,
                       LAMBDA post_num :
                           Truthy(postrange) => In(post_num, postrange))
         IN  [i \in 1..Len(kept) |-> [post_num |-> kept[i], page_num |-> page_num]]

\* The records one file adds to series_list.
file_records(file, pagerange, postrange) ==
    IF file_skipped(file, pagerange, postrange) THEN <<>>
    ELSE LET page_num == int(file.digits)
             kept == SelectSeq(file.posts,
                       LAMBDA post_num :
                           Truthy(postrange) => In(post_num, postrange))
         IN  [i \in 1..Len(kept) |-> [post_num |-> kept[i], page_num |-> page_num]]

\* file_exception with the post range looked at first: only the messages
\* inside it are asked for their id.
file_exception_selected_only(file, pagerange, postrange) ==
    LET asked == {i \in 1..Len(file.posts) :
                     Truthy(postrange) => In(file.posts[i], postrange)}
    IN  IF file_skipped(file, pagerange, postrange) THEN "ok"
        ELSE IF \A i \in asked :
                  get_post_id([data_content |-> file.data_content[i]]).status = "ok"
        THEN "ok"
        ELSE LET k == CHOOSE i \in asked :
                         /\ get_post_id([data_content |-> file.data_content[i]]).status # "ok"
                         /\ \A j \in asked : j < i =>
                               get_post_id([data_content |-> file.data_content[j]]).status = "ok"
             IN  get_post_id([data_content |-> file.data_content[k]]).status

\* The exception get_post_id raises in the loop over the messages of one
\* file ("ok" when none): every message of a file that is not skipped is
\* asked for its id, before the post range is looked at.
file_exception(file, pagerange, postrange) ==
    IF file_skipped(file, pagerange, postrange) THEN "ok"
    ELSE IF \A i \in 1..Len(file.posts) :
              get_post_id([data_content |-> file.data_content[i]]).status = "ok"
    THEN "ok"
    ELSE LET k == CHOOSE i \in 1..Len(file.posts) :
                     /\ get_post_id([data_content |-> file.data_content[i]]).status # "ok"
                     /\ \A j \in 1..(i - 1) :
                           get_post_id([data_content |-> file.data_content[j]]).status = "ok"
         IN  get_post_id([data_content |-> file.data_content[k]]).status

\* The exception that ends the loop over the files ("ok" when none).
RECURSIVE first_exception(_, _, _)
first_exception(files, pagerange, postrange) ==
    IF Len(files) = 0 THEN "ok"
    ELSE IF file_exception(Head(files), pagerange, postrange) # "ok"
    THEN file_exception(Head(files), pagerange, postrange)
    ELSE first_exception(Tail(files), pagerange, postrange)

RECURSIVE series_list(_, _, _)
series_list(files, pagerange, postrange) ==
    IF Len(files) = 0 THEN <<>>
    ELSE file_records(Head(files), pagerange, postrange)
            \o series_list(Tail(files), pagerange, postrange)

\* construct_dataframe(path, pagerange, postrange): the table, or the
\* exception that ends the call.
construct_dataframe(entries, pagerange, postrange) ==
    IF Truthy(pagerange) /\ Truthy(postrange)
    THEN [status |-> "ValueError", df |-> <<>>]
    ELSE IF \E e \in entries : Len(e.digits) = 0
    THEN [status |-> "IndexError", df |-> <<>>]
    ELSE IF first_exception(sorted_iterdir(entries), pagerange, postrange) # "ok"
    THEN [status |-> first_exception(sorted_iterdir(entries), pagerange, postrange),
          df |-> <<>>]
    ELSE [status |-> "ok",
          df |-> series_list(sorted_iterdir(entries), pagerange, postrange)]

\* ------------------------------------- the listing order of the directory
\* Path.iterdir() yields the entries in an order the file system chooses: a
\* listing is a sequence holding every entry once.

\* The listing handed on as it is, sorted() left out.
sorted_skipped(listing) == listing

\* sorted(listing, key=digit string): ascending by StrLess, stable (entries
\* with equal keys keep their listing order).
RECURSIVE sorted(_)
sorted(listing) ==
    IF Len(listing) <= 1 THEN listing
    ELSE LET rest == sorted(SubSeq(listing, 1, Len(listing) - 1))
             e == listing[Len(listing)]
             before == SelectSeq(rest, LAMBDA o : ~StrLess(e.digits, o.digits))
             after == SelectSeq(rest, LAMBDA o : StrLess(e.digits, o.digits))
         IN  before \o <<e>> \o after

\* construct_dataframe on a directory whose iterdir() yields `listing`.
construct_dataframe_listed(listing, pagerange, postrange) ==
    IF Truthy(pagerange) /\ Truthy(postrange)
    THEN [status |-> "ValueError", df |-> <<>>]
    ELSE IF \E i \in 1..Len(listing) : Len(listing[i].digits) = 0
    THEN [status |-> "IndexError", df |-> <<>>]
    ELSE IF first_exception(sorted(listing), pagerange, postrange) # "ok"
    THEN [status |-> first_exception(sorted(listing), pagerange, postrange),
          df |-> <<>>]
    ELSE [status |-> "ok",
          df |-> series_list(sorted(listing), pagerange, postrange)]

\* ------------------------------------------------- partitioned orchestrator
\* np.array_split(ary, n) for n >= 1: n contiguous sections, the first
\* len % n of them one element longer.
array_split(ary, n) ==
    LET q == Len(ary) \div n
        r == Len(ary) % n
        size(i) == IF i <= r THEN q + 1 ELSE q
        offset(i) == (i - 1) * q + (IF i - 1 <= r THEN i - 1 ELSE r)
    IN  [i \in 1..n |-> SubSeq(ary, offset(i) + 1, offset(i) + size(i))]

\* [int(re.findall(r"\d+", file.name)[0]) for file in sorted(...)
\*  if file.is_file()]
full_page_range(entries) ==
    LET files == SelectSeq(sorted_iterdir(entries), LAMBDA e : ~e.is_dir)
    IN  [kind |-> "list", vals |-> [i \in 1..Len(files) |-> int(files[i].digits)]]

\* range_arg.get("pagerange") or range_arg.get("postrange") or full_page_range
chunk_source(range_arg, entries) ==
    IF Truthy(range_arg.pagerange) THEN range_arg.pagerange
    ELSE IF Truthy(range_arg.postrange) THEN range_arg.postrange
    ELSE full_page_range(entries)

\* chunks = [chunk for chunk in np.array_split(..., jobs) if chunk.size > 0]
nonempty_chunks(range_arg, entries, n) ==
    SelectSeq(array_split(chunk_source(range_arg, entries).vals, n),
              LAMBDA chunk : Len(chunk) > 0)

\* One argument list of pool.starmap: the chunk goes to postrange when a
\* post range is active and to pagerange otherwise.
starmap_args(chunk, range_arg) ==
    [pagerange |-> IF ~Truthy(range_arg.postrange)
                   THEN [kind |-> "list", vals |-> chunk] ELSE None,
     postrange |-> IF Truthy(range_arg.postrange)
                   THEN [kind |-> "list", vals |-> chunk] ELSE None]

\* pd.concat(dfs, ignore_index=True): the tables one after the other.
RECURSIVE concat(_)
concat(tables) ==
    IF Len(tables) = 0 THEN <<>> ELSE Head(tables) \o concat(Tail(tables))

\* Two tables that ascend in post_num, merged into one that does (rows of a
\* before rows of b with the same post_num).
RECURSIVE merge_sorted(_, _)
merge_sorted(a, b) ==
    IF Len(a) = 0 THEN b
    ELSE IF Len(b) = 0 THEN a
    ELSE IF a[Len(a)].post_num <= b[1].post_num THEN a \o b
    ELSE IF b[Len(b)].post_num < a[1].post_num THEN b \o a
    ELSE LET h == (Len(a) + 1) \div 2
             lo == SelectSeq(b, LAMBDA r : r.post_num < a[h].post_num)
             hi == SelectSeq(b, LAMBDA r : r.post_num >= a[h].post_num)
         IN  merge_sorted(SubSeq(a, 1, h - 1), lo) \o <<a[h]>>
                \o merge_sorted(SubSeq(a, h + 1, Len(a)), hi)

\* sort_values left out: the concatenated table as it is.
sort_values_skipped(t) == t

\* df.sort_values(by="post_num"): the rows in ascending post_num order.
RECURSIVE sort_values(_)
sort_values(t) ==
    IF Len(t) <= 1 THEN t
    ELSE LET h == Len(t) \div 2
         IN  merge_sorted(sort_values(SubSeq(t, 1, h)),
                          sort_values(SubSeq(t, h + 1, Len(t))))

\* One run of the command line without range flags and with n jobs, on a
\* directory whose iterdir() yields `listing` (to the main program and to
\* every worker): the table, or the exception that ends the run.
extract_listed(listing, n) ==
    IF n = 1 THEN construct_dataframe_listed(listing, None, None)
    ELSE IF \E i \in 1..Len(listing) : Len(listing[i].digits) = 0
    THEN [status |-> "IndexError", df |-> <<>>]
    ELSE LET files == SelectSeq(sorted(listing), LAMBDA e : ~e.is_dir)
             pages == [i \in 1..Len(files) |-> int(files[i].digits)]
             chunks == SelectSeq(array_split(pages, n),
                                 LAMBDA chunk : Len(chunk) > 0)
             tables == [i \in 1..Len(chunks) |->
                          construct_dataframe_listed(
                              listing, [kind |-> "list", vals |-> chunks[i]],
                              None).df]
         IN  IF Len(chunks) = 0
             THEN [status |-> "ValueError", df |-> <<>>]
             ELSE [status |-> "ok", df |-> sort_values(concat(tables))]

\* ------------------------------------------------- tokenizer and rules
\* Characters of a message text, one per class the code tells apart:
\*   "A"  an uppercase letter          "a"   a lowercase letter
\*   "7"  a decimal digit              "sp"  U+0020 SPACE
\*   "nl" U+000A LINE FEED             "hf"  U+115F HANGUL CHOSEONG FILLER
\*   "?"  a question mark              "emoji" an emoji glyph
\* The longer texts also hold "." (a full stop) and "dq" (a double quote).
Chars == {"A", "a", "7", "sp", "nl", "hf", "?", "emoji"}

\* The characters str.strip() removes and regex \s matches.
WhitespaceChars == {"sp", "nl"}

\* WHITESPACES = chr(847), chr(4447), chr(4448), chr(6068), chr(6069), chr(32)
WHITESPACES == {"hf", "sp"}

\* PUNCTUATION, three of its characters: ? . "
PUNCTUATION == {"?", ".", "dq"}

\* regex \p{L}: U+115F is a letter (Lo) without case.
IsLetter(c) == c \in {"A", "a", "hf"}

\* str.isupper() of one character.
isupper(c) == c = "A"

\* regex \w
IsWordChar(c) == c \in {"A", "a", "7", "hf"}

\* emojis.is_emoji
is_emoji(c) == c = "emoji"

\* str.strip(chars): leading and trailing characters of the set removed.
RECURSIVE strip(_, _)
strip(s, chars) ==
    IF Len(s) = 0 THEN s
    ELSE IF s[1] \in chars THEN strip(Tail(s), chars)
    ELSE IF s[Len(s)] \in chars THEN strip(SubSeq(s, 1, Len(s) - 1), chars)
    ELSE s

\* re.split(r"\s", string_): the pieces between whitespace characters only.
RECURSIVE re_split_whitespace_only(_)
re_split_whitespace_only(s) ==
    IF \A i \in 1..Len(s) : s[i] \notin WhitespaceChars
    THEN <<s>>
    ELSE LET i == CHOOSE k \in 1..Len(s) :
                     /\ s[k] \in WhitespaceChars
                     /\ \A j \in 1..(k - 1) : s[j] \notin WhitespaceChars
         IN  <<SubSeq(s, 1, i - 1)>>
                 \o re_split_whitespace_only(SubSeq(s, i + 1, Len(s)))

\* re.split(rf"[\s{PUNCTUATION}]", string_): the pieces between separator
\* characters, empty pieces included.
RECURSIVE re_split(_)
re_split(s) ==
    IF \A i \in 1..Len(s) : s[i] \notin (WhitespaceChars \cup PUNCTUATION)
    THEN <<s>>
    ELSE LET i == CHOOSE k \in 1..Len(s) :
                     /\ s[k] \in (WhitespaceChars \cup PUNCTUATION)
                     /\ \A j \in 1..(k - 1) :
                           s[j] \notin (WhitespaceChars \cup PUNCTUATION)
         IN  <<SubSeq(s, 1, i - 1)>> \o re_split(SubSeq(s, i + 1, Len(s)))

\* split_words: the pieces that hold a word character.
split_words(string_) ==
    SelectSeq(re_split(string_),
              LAMBDA piece : \E i \in 1..Len(piece) : IsWordChar(piece[i]))

\* content.strip().strip(WHITESPACES), the first two lines of rules_reworked.
stripped_content(content) == strip(strip(content, WhitespaceChars), WHITESPACES)

\* rules_reworked with the word count test off by one (<= 5 for < 5).
rules_reworked_word_count_off_by_one(content, word_count) ==
    LET stripped == stripped_content(content)
        letters == {i \in 1..Len(stripped) : IsLetter(stripped[i])}
        first_letter_match == CHOOSE i \in letters : \A j \in letters : i <= j
        last_char == stripped[Len(stripped)]
    IN  IF Len(stripped) = 0
        THEN << [k |-> "word_count", v |-> FALSE],
                [k |-> "first_letter", v |-> FALSE],
                [k |-> "punctuation", v |-> FALSE] >>
        ELSE << [k |-> "word_count", v |-> ~(word_count <= 5)],
                [k |-> "first_letter",
                 v |-> ~(letters = {} \/ ~isupper(stripped[first_letter_match]))],
                [k |-> "punctuation",
                 v |-> ~(last_char \notin PUNCTUATION /\ ~is_emoji(last_char))] >>

\* rules_reworked with last_char read from the content as passed, before the
\* two strip calls.
rules_reworked_last_char_unstripped(content, word_count) ==
    LET stripped == stripped_content(content)
        letters == {i \in 1..Len(stripped) : IsLetter(stripped[i])}
        first_letter_match == CHOOSE i \in letters : \A j \in letters : i <= j
        last_char == content[Len(content)]
    IN  IF Len(stripped) = 0
        THEN << [k |-> "word_count", v |-> FALSE],
                [k |-> "first_letter", v |-> FALSE],
                [k |-> "punctuation", v |-> FALSE] >>
        ELSE << [k |-> "word_count", v |-> ~(word_count < 5)],
                [k |-> "first_letter",
                 v |-> ~(letters = {} \/ ~isupper(stripped[first_letter_match]))],
                [k |-> "punctuation",
                 v |-> ~(last_char \notin PUNCTUATION /\ ~is_emoji(last_char))] >>

\* rules_reworked(content, word_count): the compliance dict, as its items in
\* insertion order.
rules_reworked(content, word_count) ==
    LET stripped == stripped_content(content)
        letters == {i \in 1..Len(stripped) : IsLetter(stripped[i])}
        first_letter_match == CHOOSE i \in letters : \A j \in letters : i <= j
        last_char == stripped[Len(stripped)]
    IN  IF Len(stripped) = 0
        THEN << [k |-> "word_count", v |-> FALSE],
                [k |-> "first_letter", v |-> FALSE],
                [k |-> "punctuation", v |-> FALSE] >>
        ELSE << [k |-> "word_count", v |-> ~(word_count < 5)],
                [k |-> "first_letter",
                 v |-> ~(letters = {} \/ ~isupper(stripped[first_letter_match]))],
                [k |-> "punctuation",
                 v |-> ~(last_char \notin PUNCTUATION /\ ~is_emoji(last_char))] >>

\* The comprehension with its test inverted (if v for if not v).
failed_rules_test_inverted(result) ==
    LET passed == SelectSeq(result, LAMBDA item : item.v)
    IN  [i \in 1..Len(passed) |-> passed[i].k]

\* rulebreak_reasons = [k for k, v in result.items() if not v]
failed_rules(result) ==
    LET failed == SelectSeq(result, LAMBDA item : ~item.v)
    IN  [i \in 1..Len(failed) |-> failed[i].k]

\* ------------------------------------------------------ message extractors
\* A message article as the extractors see it (get_post_id stands with the
\* directory entries above):
\*   data_content  the data-content attribute: "post" for "post-<digits>",
\*                 "other" for a value without that pattern, "absent"
\*   anchors       the a.username anchors in document order; own marks the
\*                 anchor of the author in the message header, user_id is
\*                 the data-user-id attribute or "absent"
\*   reactions     the a.reactionsBar-link element: present, the number of
\*                 bdi elements (listed names) and the text beside them
\*   smilies       the img.smilie nodes in document order; shortname is the
\*                 data-shortname attribute or "absent", noisy marks a node
\*                 inside a blockquote, table or other tag that
\*                 clean_noisy_tags decomposes
\*   periods       the "." strings clean_emojis has inserted
\*   last_edit     whether a div.message-lastEdit is in the message
\*   quotes        the blockquote.bbCodeBlock--quote elements in document
\*                 order; data_quote is the data-quote attribute or "absent"
\*   spoilers      the number of div.bbCodeSpoiler elements

\* message.find("a", class_="username")["data-user-id"]; TypeError (no
\* anchor) and KeyError (no attribute) give "0".
get_author_id(message) ==
    IF Len(message.anchors) = 0 THEN "0"
    ELSE IF message.anchors[1].user_id = "absent" THEN "0"
    ELSE message.anchors[1].user_id

\* The ids of message.find_all("a", class_="username")[1:], "0" on KeyError.
get_list_of_mentioned_ids(message) ==
    LET mentions == SubSeq(message.anchors, 2, Len(message.anchors))
    IN  [i \in 1..Len(mentions) |->
            IF mentions[i].user_id = "absent" THEN "0" ELSE mentions[i].user_id]

\* re.findall(r"\d+", text): the maximal digit runs of text, in order.
RECURSIVE findall_digits(_)
findall_digits(t) ==
    IF \A i \in 1..Len(t) : t[i] \notin DigitChars THEN <<>>
    ELSE LET a == CHOOSE i \in 1..Len(t) :
                     t[i] \in DigitChars /\ \A j \in 1..(i - 1) : t[j] \notin DigitChars
             b == CHOOSE i \in a..Len(t) :
                     /\ \A j \in a..i : t[j] \in DigitChars
                     /\ i = Len(t) \/ t[i + 1] \notin DigitChars
         IN  <<SubSeq(t, a, b)>> \o findall_digits(SubSeq(t, b + 1, Len(t)))

\* get_amount_of_likes with r"\d" for r"\d+": the first digit alone.
get_amount_of_likes_first_digit(message) ==
    LET bar == message.reactions
        found == findall_digits(bar.text)
    IN  IF ~bar.present THEN 0
        ELSE IF bar.bdi < 3 THEN bar.bdi
        ELSE IF Len(found) = 0 THEN bar.bdi
        ELSE DigitValue(found[1][1]) + bar.bdi

\* get_amount_of_likes: the value returned.
get_amount_of_likes(message) ==
    LET bar == message.reactions
        found == findall_digits(bar.text)
    IN  IF ~bar.present THEN 0
        ELSE IF bar.bdi < 3 THEN bar.bdi
        ELSE IF Len(found) = 0 THEN bar.bdi
        ELSE py_int(found[1]).val + bar.bdi

\* get_amount_of_likes: the message it leaves (the bdi elements are
\* decomposed once three or more are counted).
likes_decomposed(message) ==
    IF message.reactions.present /\ message.reactions.bdi >= 3
    THEN [message EXCEPT !.reactions.bdi = 0]
    ELSE message

\* clean_noisy_tags that decomposes nothing.
clean_noisy_tags_skipped(message) == message

\* clean_noisy_tags: every blockquote and div.message-lastEdit is decomposed,
\* and the nodes inside the decomposed tags are gone with them.
clean_noisy_tags(message) ==
    [message EXCEPT !.smilies = SelectSeq(@, LAMBDA e : ~e.noisy),
                    !.quotes = <<>>,
                    !.last_edit = FALSE]

\* has_edited_message
has_edited_message(message) == message.last_edit

\* get_amount_of_quotes reading the message the first cleaning pass left.
get_amount_of_quotes_cleaned(message) == Len(clean_noisy_tags(message).quotes)

\* get_amount_of_quotes
get_amount_of_quotes(message) == Len(message.quotes)

\* get_list_of_quoted_usernames: quote["data-quote"] of every quote block,
\* or KeyError at one without the attribute.
get_list_of_quoted_usernames(message) ==
    IF \E i \in 1..Len(message.quotes) : message.quotes[i].data_quote = "absent"
    THEN [status |-> "KeyError", val |-> <<>>]
    ELSE [status |-> "ok",
          val |-> [i \in 1..Len(message.quotes) |-> message.quotes[i].data_quote]]

\* get_amount_of_spoilers
get_amount_of_spoilers(message) == message.spoilers

\* get_mapping_of_emojis_and_frequency with a node that lacks
\* data-shortname passed over.
get_mapping_of_emojis_and_frequency_skipping(message) ==
    LET sm == SelectSeq(message.smilies, LAMBDA e : e.shortname # "absent")
        firsts == SelectSeq([i \in 1..Len(sm) |-> i],
                      LAMBDA i : \A j \in 1..(i - 1) : sm[j].shortname # sm[i].shortname)
    IN  [status |-> "ok",
         items |-> [n \in 1..Len(firsts) |->
                      [k |-> sm[firsts[n]].shortname,
                       v |-> Cardinality({j \in 1..Len(sm) :
                                sm[j].shortname = sm[firsts[n]].shortname})]]]

\* get_mapping_of_emojis_and_frequency: the dict as its items in insertion
\* order, or KeyError at a node without data-shortname.
get_mapping_of_emojis_and_frequency(message) ==
    LET sm == message.smilies
        firsts == SelectSeq([i \in 1..Len(sm) |-> i],
                      LAMBDA i : \A j \in 1..(i - 1) : sm[j].shortname # sm[i].shortname)
    IN  IF \E i \in 1..Len(sm) : sm[i].shortname = "absent"
        THEN [status |-> "KeyError", items |-> <<>>]
        ELSE [status |-> "ok",
              items |-> [n \in 1..Len(firsts) |->
                           [k |-> sm[firsts[n]].shortname,
                            v |-> Cardinality({j \in 1..Len(sm) :
                                     sm[j].shortname = sm[firsts[n]].shortname})]]]

\* sum(i for i in emoji_frequency_mapping.values())
RECURSIVE sum_values(_)
sum_values(items) ==
    IF Len(items) = 0 THEN 0 ELSE Head(items).v + sum_values(Tail(items))

\* clean_emojis without emoji.decompose(): the "." is inserted, the node
\* stays.
clean_emojis_node_kept(message) ==
    [message EXCEPT !.periods = @ + Len(message.smilies)]

\* clean_emojis: a "." after every img.smilie, the node decomposed. (The
\* except branch needs insert_after to raise, which it does only for a node
\* without parent; find_all yields none.)
clean_emojis(message) ==
    [message EXCEPT !.periods = @ + Len(message.smilies), !.smilies = <<>>]

\* ---------------------------------------------------------------- the run
VARIABLES
    path,       \* the entries of the directory given with --path
    args,       \* argparse result: pagerange, postrange (<<>>: flag absent),
                \* jobs, and path as what it names in the file system
    pc,         \* position of the main program
    range_arg,  \* the parsed range arguments (None when absent)
    jobs,       \* the worker count of the parallel branch
    iterable,   \* the argument lists handed to pool.starmap, one per chunk
    wstate,     \* per chunk: "queued", "running", "done", "failed", "terminated"
    dfs,        \* per chunk: the table its worker returned
    finished,   \* the chunks in the order their workers finished
    df,         \* the table of the run
    err,        \* the exception that ended the run ("" when none)
    output,     \* the table written by the output step
    \* one message in the per-message loop of construct_dataframe, or one
    \* direct call of rules_reworked
    caller,     \* "construct_dataframe" or "direct"
    rpc,        \* position in the text steps of the message
    text,       \* content_tag.get_text() after the cleaning passes
    content,    \* the content column / the content argument
    words,      \* the words column
    word_count, \* the word_count column / the word_count argument
    compliance, \* the dict rules_reworked returned, as its items
    rulebreak_reasons,
    is_rules_compliant,
    \* one call of parse_range
    rangestring, \* the argument
    parts,       \* rangestring.split(",")
    nums,        \* [int(i) for i in parts]
    parsed,      \* the range returned (None before the return)
    perr,        \* the exception raised ("" when none)
    ppc,         \* position in parse_range
    \* calls of the page arithmetic functions for one post
    post_num,    \* the post number asked about
    page_num,    \* get_page_for_message(post_num)
    first_post,  \* get_first_post_from_page(page_num)
    last_post,   \* get_last_post_from_page(page_num)
    next_page,   \* first and last post of page_num + 1
    gpc,         \* which of the calls is next
    \* two runs without range flags on one unchanged directory
    listings,    \* what iterdir() yields in the first and in the second run
    ljobs,       \* the --jobs value of both runs
    tables,      \* the outcome of each run: status and table
    lpc,         \* which run is next
    \* one message in the per-message loop of construct_dataframe, from
    \* get_post_id to series_list.append
    message,            \* the message article, modified by the cleaning steps
    unmodified_message, \* copy.copy(message)
    row,                \* the columns computed so far
    appended,           \* what the message added to series_list
    merr,               \* the exception that ended the loop ("" when none)
    mpc,                \* position in the loop body
    \* clean_emojis called on one message, and again on what it left
    node,               \* the message handed to clean_emojis
    once,               \* the message after the first call
    cpc                 \* the number of calls made

runvars == <<path, args, pc, range_arg, jobs, iterable, wstate, dfs, finished,
             df, err, output>>

rulevars == <<caller, rpc, text, content, words, word_count, compliance,
              rulebreak_reasons, is_rules_compliant>>

parsevars == <<rangestring, parts, nums, parsed, perr, ppc>>

\* The variables of the single calls, idle during a run and the text steps.
pagevars == <<post_num, page_num, first_post, last_post, next_page, gpc>>

listvars == <<listings, ljobs, tables, lpc>>

msgvars == <<message, unmodified_message, row, appended, merr, mpc>>

cleanvars == <<node, once, cpc>>

unitvars == <<parsevars, pagevars, listvars, msgvars, cleanvars>>

vars == <<runvars, rulevars, unitvars>>

\* The --pagerange / --postrange values of a run, as the integer components
\* of the range string; <<>> is an absent flag.
PageRangeStrings ==
    { <<1, 2>>, <<1, 3>>, <<2, 2>>, <<2, 4>>, <<1, 11>>, <<1, 11, 2>>, <<3, 0, -1>> }

PostRangeStrings ==
    { <<1, 21>>, <<2, 20>>, <<5, 5>>, <<1, 41>>, <<1, 21, 2>>, <<15, 30>>, <<21, 61, 3>> }

JobCounts == (0 - 1)..MaxJobs

\* What --path names: a directory, nothing, or a regular file.
PathKinds == {"directory", "missing", "file"}

\* Path(path).iterdir(): the exception it raises ("ok" for a directory).
iterdir_exception(kind) ==
    IF kind = "missing" THEN "FileNotFoundError"
    ELSE IF kind = "file" THEN "NotADirectoryError"
    ELSE "ok"

RunInit ==
    /\ args \in [path : PathKinds,
                 pagerange : {<<>>} \cup PageRangeStrings,
                 postrange : {<<>>} \cup PostRangeStrings,
                 jobs : JobCounts]
    /\ path \in IF args.path = "directory" THEN Directories ELSE {{}}
    /\ pc = "start"
    /\ range_arg = [pagerange |-> None, postrange |-> None]
    /\ jobs = 0
    /\ iterable = <<>>
    /\ wstate = <<>>
    /\ dfs = <<>>
    /\ finished = <<>>
    /\ df = <<>>
    /\ err = ""
    /\ output = <<>>

\* if args.pagerange and args.postrange: print(...); sys.exit(1)
RangeFlagExit ==
    /\ pc = "start"
    /\ Len(args.pagerange) > 0 /\ Len(args.postrange) > 0
    /\ pc' = "exit"
    /\ UNCHANGED <<path, args, range_arg, jobs, iterable, wstate, dfs,
                   finished, df, err, output>>
    /\ UNCHANGED <<rulevars, unitvars>>

\* range_arg = {}; one parse_range per given flag
ParseRanges ==
    /\ pc = "start"
    /\ ~(Len(args.pagerange) > 0 /\ Len(args.postrange) > 0)
    /\ range_arg' =
         [pagerange |-> IF Len(args.pagerange) > 0
                        THEN parse_range(args.pagerange) ELSE None,
          postrange |-> IF Len(args.postrange) > 0
                        THEN parse_range(args.postrange) ELSE None]
    /\ pc' = "dispatch"
    /\ UNCHANGED <<path, args, jobs, iterable, wstate, dfs, finished, df,
                   err, output>>
    /\ UNCHANGED <<rulevars, unitvars>>

\* The test with every worker count below 2 taken as sequential.
single_process_at_most_one(n) == n <= 1

\* if args.jobs == 1:
single_process(n) == n = 1

\* if args.jobs == 1: df = scraper.construct_dataframe(args.path, **range_arg)
Sequential ==
    /\ pc = "dispatch"
    /\ single_process(args.jobs)
    /\ LET res == construct_dataframe(path, range_arg.pagerange, range_arg.postrange)
       IN  IF iterdir_exception(args.path) = "FileNotFoundError"
           THEN df' = df /\ pc' = "exit" /\ err' = "FileNotFoundError"
           ELSE IF iterdir_exception(args.path) # "ok"
           THEN df' = df /\ pc' = "crashed" /\ err' = iterdir_exception(args.path)
           ELSE IF res.status = "ok"
           THEN df' = res.df /\ pc' = "output" /\ err' = err
           ELSE df' = df /\ pc' = "crashed" /\ err' = res.status
    /\ UNCHANGED <<path, args, range_arg, jobs, iterable, wstate, dfs,
                   finished, output>>
    /\ UNCHANGED <<rulevars, unitvars>>

\* else: jobs, full_page_range, chunks, the starmap argument lists
Partition ==
    /\ pc = "dispatch"
    /\ ~single_process(args.jobs)
    /\ \E cpu_count \in 1..MaxCpu :
         LET n == IF args.jobs < 1 THEN cpu_count ELSE args.jobs IN
         IF iterdir_exception(args.path) = "FileNotFoundError"
         THEN /\ pc' = "exit" /\ err' = "FileNotFoundError"
              /\ UNCHANGED <<jobs, iterable, wstate, dfs>>
         ELSE IF iterdir_exception(args.path) # "ok"
         THEN /\ pc' = "crashed" /\ err' = iterdir_exception(args.path)
              /\ UNCHANGED <<jobs, iterable, wstate, dfs>>
         ELSE IF \E e \in path : Len(e.digits) = 0
         THEN /\ pc' = "crashed" /\ err' = "IndexError"
              /\ UNCHANGED <<jobs, iterable, wstate, dfs>>
         ELSE LET chunks == nonempty_chunks(range_arg, path, n) IN
              /\ jobs' = IF n < Len(chunks) THEN n ELSE Len(chunks)
              /\ iterable' = [i \in 1..Len(chunks) |->
                                 starmap_args(chunks[i], range_arg)]
              /\ wstate' = [i \in 1..Len(chunks) |-> "queued"]
              /\ dfs' = [i \in 1..Len(chunks) |-> <<>>]
              /\ pc' = "pool" /\ err' = err
    /\ UNCHANGED <<path, args, range_arg, finished, df, output>>
    /\ UNCHANGED <<rulevars, unitvars>>

\* A pool process takes the argument list of chunk i.
WorkerStart(i) ==
    /\ pc = "pool"
    /\ wstate[i] = "queued"
    /\ wstate' = [wstate EXCEPT ![i] = "running"]
    /\ UNCHANGED <<path, args, pc, range_arg, jobs, iterable, dfs, finished,
                   df, err, output>>
    /\ UNCHANGED <<rulevars, unitvars>>

\* pool.starmap hands back as soon as one worker has ended.
starmap_ready_first_result(states) ==
    \E i \in 1..Len(states) : states[i] \in {"done", "failed"}

\* pool.starmap hands back (the list of tables, or the exception stored
\* first) once every task has ended, failed ones included.
starmap_ready(states) ==
    \A i \in 1..Len(states) : states[i] \in {"done", "failed"}

\* The pool process of chunk i returns construct_dataframe(path, pagerange,
\* postrange) or ends with its exception; the pool keeps the exception it
\* was sent first.
WorkerFinish(i) ==
    /\ pc = "pool"
    /\ wstate[i] = "running"
    /\ LET res == construct_dataframe(path, iterable[i].pagerange,
                                      iterable[i].postrange)
       IN  IF res.status = "ok"
           THEN /\ dfs' = [dfs EXCEPT ![i] = res.df]
                /\ wstate' = [wstate EXCEPT ![i] = "done"]
                /\ finished' = Append(finished, i)
                /\ pc' = pc /\ err' = err
           ELSE /\ wstate' = [wstate EXCEPT ![i] = "failed"]
                /\ err' = IF err = "" THEN res.status ELSE err
                /\ pc' = pc
                /\ UNCHANGED <<dfs, finished>>
    /\ UNCHANGED <<path, args, range_arg, jobs, iterable, df, output>>
    /\ UNCHANGED <<rulevars, unitvars>>

\* pool.starmap has returned every table, in chunk order, or re-raises the
\* exception of a worker:
\* df = pd.concat(dfs, ignore_index=True); df = df.sort_values(by="post_num").
\* pd.concat raises ValueError for an empty list of tables.
Assemble ==
    /\ pc = "pool"
    /\ starmap_ready(wstate)
    /\ IF \E i \in 1..Len(wstate) : wstate[i] = "failed"
       THEN df' = df /\ pc' = "crashed" /\ err' = err
       ELSE IF Len(dfs) = 0
       THEN df' = df /\ pc' = "crashed" /\ err' = "ValueError"
       ELSE df' = sort_values(concat(dfs)) /\ pc' = "output" /\ err' = err
    /\ UNCHANGED <<path, args, range_arg, jobs, iterable, wstate, dfs,
                   finished, output>>
    /\ UNCHANGED <<rulevars, unitvars>>

\* KeyboardInterrupt in the main process while it waits in pool.starmap: the
\* exception leaves the with block, Pool.__exit__ calls terminate(), no
\* except clause catches it.
Interrupt ==
    /\ pc = "pool"
    /\ wstate' = [i \in 1..Len(wstate) |->
                    IF wstate[i] \in {"queued", "running"}
                    THEN "terminated" ELSE wstate[i]]
    /\ pc' = "crashed"
    /\ err' = "KeyboardInterrupt"
    /\ UNCHANGED <<path, args, range_arg, jobs, iterable, dfs, finished, df,
                   output>>
    /\ UNCHANGED <<rulevars, unitvars>>

\* print(df.to_json()) / df.to_json(path)
Output ==
    /\ pc = "output"
    /\ output' = df
    /\ pc' = "done"
    /\ UNCHANGED <<path, args, range_arg, jobs, iterable, wstate, dfs,
                   finished, df, err>>
    /\ UNCHANGED <<rulevars, unitvars>>

RunNext ==
    \/ RangeFlagExit
    \/ ParseRanges
    \/ Sequential
    \/ Partition
    \/ \E i \in 1..Len(wstate) : WorkerStart(i)
    \/ \E i \in 1..Len(wstate) : WorkerFinish(i)
    \/ Assemble
    \/ Interrupt
    \/ Output

\* ------------------------------------------------ the text steps of a message
\* "Hallo Welt wie geht es dir?"
HalloWelt ==
    << "A", "a", "a", "a", "a", "sp", "A", "a", "a", "a", "sp", "a", "a", "a",
       "sp", "a", "a", "a", "a", "sp", "a", "a", "sp", "a", "a", "a", "?" >>

\* "hallo"
hallo == << "a", "a", "a", "a", "a" >>

\* Five lines that each hold one U+115F filler.
FillerLines == << "hf", "nl", "hf", "nl", "hf", "nl", "hf", "nl", "hf" >>

\* not.one"word
NotOneWord ==
    << "a", "a", "a", ".", "a", "a", "a", "dq", "a", "a", "a", "a" >>

\* The message texts of a run: every text of at most MaxLen characters, and
\* four longer ones.
Texts ==
    UNION {[1..n -> Chars] : n \in 0..MaxLen}
        \cup {HalloWelt, hallo, FillerLines, NotOneWord}

RulesInit ==
    /\ text \in Texts
    /\ caller \in {"construct_dataframe", "direct"}
    /\ rpc = "message"
    /\ content = <<>>
    /\ words = <<>>
    /\ word_count = 0
    /\ compliance = <<>>
    /\ rulebreak_reasons = <<>>
    /\ is_rules_compliant = FALSE

\* content = content_tag.get_text().strip()
ReadContent ==
    /\ rpc = "message" /\ caller = "construct_dataframe"
    /\ content' = strip(text, WhitespaceChars)
    /\ rpc' = "content"
    /\ UNCHANGED <<caller, text, words, word_count, compliance,
                   rulebreak_reasons, is_rules_compliant>>
    /\ UNCHANGED <<runvars, unitvars>>

\* words = split_words(content); word_count = len(words)
SplitWords ==
    /\ rpc = "content"
    /\ words' = split_words(content)
    /\ word_count' = Len(split_words(content))
    /\ rpc' = "words"
    /\ UNCHANGED <<caller, text, content, compliance, rulebreak_reasons,
                   is_rules_compliant>>
    /\ UNCHANGED <<runvars, unitvars>>

\* A caller other than construct_dataframe hands rules_reworked a content
\* and a word_count of its own.
DirectArguments ==
    /\ rpc = "message" /\ caller = "direct"
    /\ content' = text
    /\ \E n \in 0..MaxWordCount : word_count' = n
    /\ rpc' = "words"
    /\ UNCHANGED <<caller, text, words, compliance, rulebreak_reasons,
                   is_rules_compliant>>
    /\ UNCHANGED <<runvars, unitvars>>

\* rules_compliance_check_result = rules_reworked(content, word_count)
CheckRules ==
    /\ rpc = "words"
    /\ compliance' = rules_reworked(content, word_count)
    /\ rpc' = "checked"
    /\ UNCHANGED <<caller, text, content, words, word_count,
                   rulebreak_reasons, is_rules_compliant>>
    /\ UNCHANGED <<runvars, unitvars>>

\* rulebreak_reasons = [...]; is_rules_compliant = not rulebreak_reasons
RuleColumns ==
    /\ rpc = "checked" /\ caller = "construct_dataframe"
    /\ rulebreak_reasons' = failed_rules(compliance)
    /\ is_rules_compliant' = (Len(failed_rules(compliance)) = 0)
    /\ rpc' = "record"
    /\ UNCHANGED <<caller, text, content, words, word_count, compliance>>
    /\ UNCHANGED <<runvars, unitvars>>

RulesNext ==
    \/ ReadContent
    \/ SplitWords
    \/ DirectArguments
    \/ CheckRules
    \/ RuleColumns

\* ---------------------------------------- a direct call of construct_dataframe
\* The range arguments of a caller of scraper.construct_dataframe: absent,
\* an empty range, or a range with values.
CallRanges == {None, range(2, 2, 1), range(1, 3, 1), range(1, 21, 1)}

CallInit ==
    /\ path \in Directories
    /\ range_arg \in [pagerange : CallRanges, postrange : CallRanges]
    /\ pc = "call"
    /\ args = [path |-> "directory", pagerange |-> <<>>, postrange |-> <<>>,
               jobs |-> 1]
    /\ jobs = 0
    /\ iterable = <<>>
    /\ wstate = <<>>
    /\ dfs = <<>>
    /\ finished = <<>>
    /\ df = <<>>
    /\ err = ""
    /\ output = <<>>

\* df = construct_dataframe(path, pagerange, postrange)
DirectCall ==
    /\ pc = "call"
    /\ LET res == construct_dataframe(path, range_arg.pagerange, range_arg.postrange)
       IN  IF res.status = "ok"
           THEN df' = res.df /\ pc' = "returned" /\ err' = err
           ELSE df' = df /\ pc' = "raised" /\ err' = res.status
    /\ UNCHANGED <<path, args, range_arg, jobs, iterable, wstate, dfs,
                   finished, output>>
    /\ UNCHANGED <<rulevars, unitvars>>

\* ------------------------------------------------- one call of parse_range
\* The components range strings are put together from.
Components ==
    { <<"1">>, <<"2">>, <<"2", "1">>, <<"0">>, <<"-", "1">>, <<"-">>, <<"x">>,
      <<>> }

\* ",".join(cs)
RECURSIVE join(_)
join(cs) ==
    IF Len(cs) = 0 THEN <<>>
    ELSE IF Len(cs) = 1 THEN cs[1]
    ELSE cs[1] \o <<",">> \o join(Tail(cs))

RangeStrings ==
    { join(cs) : cs \in UNION { [1..k -> Components] : k \in 0..MaxParts } }

ParseInit ==
    /\ rangestring \in RangeStrings
    /\ parts = <<>>
    /\ nums = <<>>
    /\ parsed = None
    /\ perr = ""
    /\ ppc = "split"

\* parts = rangestring.split(",")
SplitParts ==
    /\ ppc = "split"
    /\ parts' = split(rangestring, ",")
    /\ ppc' = "len"
    /\ UNCHANGED <<rangestring, nums, parsed, perr>>
    /\ UNCHANGED <<runvars, rulevars, pagevars, listvars, msgvars,
                   cleanvars>>

\* if len(parts) not in (2, 3): raise ValueError("Invalid rangestring")
CheckLen ==
    /\ ppc = "len"
    /\ IF invalid_len(parts)
       THEN ppc' = "raised" /\ perr' = "ValueError"
       ELSE ppc' = "int" /\ perr' = perr
    /\ UNCHANGED <<rangestring, parts, nums, parsed>>
    /\ UNCHANGED <<runvars, rulevars, pagevars, listvars, msgvars,
                   cleanvars>>

\* nums = [int(i) for i in parts]
ConvertNums ==
    /\ ppc = "int"
    /\ IF \E i \in 1..Len(parts) : py_int(parts[i]).status # "ok"
       THEN ppc' = "raised" /\ perr' = "ValueError" /\ nums' = nums
       ELSE /\ nums' = [i \in 1..Len(parts) |-> py_int(parts[i]).val]
            /\ ppc' = "range" /\ perr' = perr
    /\ UNCHANGED <<rangestring, parts, parsed>>
    /\ UNCHANGED <<runvars, rulevars, pagevars, listvars, msgvars,
                   cleanvars>>

\* return range(*nums)
MakeRange ==
    /\ ppc = "range"
    /\ LET res == range_call(nums)
       IN  IF res.status = "ok"
           THEN parsed' = res.val /\ ppc' = "returned" /\ perr' = perr
           ELSE parsed' = parsed /\ ppc' = "raised" /\ perr' = res.status
    /\ UNCHANGED <<rangestring, parts, nums>>
    /\ UNCHANGED <<runvars, rulevars, pagevars, listvars, msgvars,
                   cleanvars>>

ParseNext ==
    \/ SplitParts
    \/ CheckLen
    \/ ConvertNums
    \/ MakeRange

\* ------------------------------------------------ the page arithmetic calls
\* The post numbers of a thread of MaxPage pages.
PostNumbers == 1..(20 * MaxPage)

PagesInit ==
    /\ post_num \in PostNumbers
    /\ page_num = 0
    /\ first_post = 0
    /\ last_post = 0
    /\ next_page = [first |-> 0, last |-> 0]
    /\ gpc = "page"

\* page_num = get_page_for_message(post_num)
PageOfPost ==
    /\ gpc = "page"
    /\ page_num' = get_page_for_message(post_num)
    /\ gpc' = "first"
    /\ UNCHANGED <<post_num, first_post, last_post, next_page>>
    /\ UNCHANGED <<runvars, rulevars, parsevars, listvars, msgvars,
                   cleanvars>>

\* get_first_post_from_page(page_num)
FirstPostOfPage ==
    /\ gpc = "first"
    /\ first_post' = get_first_post_from_page(page_num)
    /\ gpc' = "last"
    /\ UNCHANGED <<post_num, page_num, last_post, next_page>>
    /\ UNCHANGED <<runvars, rulevars, parsevars, listvars, msgvars,
                   cleanvars>>

\* get_last_post_from_page(page_num)
LastPostOfPage ==
    /\ gpc = "last"
    /\ last_post' = get_last_post_from_page(page_num)
    /\ gpc' = "next"
    /\ UNCHANGED <<post_num, page_num, first_post, next_page>>
    /\ UNCHANGED <<runvars, rulevars, parsevars, listvars, msgvars,
                   cleanvars>>

\* The same two calls for the page after page_num.
NextPageInterval ==
    /\ gpc = "next"
    /\ next_page' = [first |-> get_first_post_from_page(page_num + 1),
                     last |-> get_last_post_from_page(page_num + 1)]
    /\ gpc' = "done"
    /\ UNCHANGED <<post_num, page_num, first_post, last_post>>
    /\ UNCHANGED <<runvars, rulevars, parsevars, listvars, msgvars,
                   cleanvars>>

PagesNext ==
    \/ PageOfPost
    \/ FirstPostOfPage
    \/ LastPostOfPage
    \/ NextPageInterval

\* ------------------------------------------- two runs on one directory
\* A subdirectory whose name has the same first digit run as page file 1.
SubDirOne ==
    [digits |-> <<1>>, is_dir |-> TRUE, posts |-> <<>>, data_content |-> <<>>]

\* The directories of the two runs: the pages 1..n, alone or beside a
\* subdirectory.
ListedDirectories ==
    { {PageFile(p) : p \in 1..n} \cup extra :
        n \in 0..MaxListed, extra \in {{}, {SubDirOne}} }

\* The orders in which iterdir() can yield the entries.
Listings(entries) ==
    { l \in [1..Cardinality(entries) -> entries] :
        \A e \in entries : \E i \in 1..Cardinality(entries) : l[i] = e }

NotRun == [status |-> "", df |-> <<>>]

ListingInit ==
    /\ \E entries \in ListedDirectories :
         listings \in [1..2 -> Listings(entries)]
    /\ ljobs \in 1..2
    /\ tables = [k \in 1..2 |-> NotRun]
    /\ lpc = 1

\* The first run of the command line.
FirstExtraction ==
    /\ lpc = 1
    /\ tables' = [tables EXCEPT ![1] = extract_listed(listings[1], ljobs)]
    /\ lpc' = 2
    /\ UNCHANGED <<listings, ljobs>>
    /\ UNCHANGED <<runvars, rulevars, parsevars, pagevars, msgvars,
                   cleanvars>>

\* The second run, on the same directory.
SecondExtraction ==
    /\ lpc = 2
    /\ tables' = [tables EXCEPT ![2] = extract_listed(listings[2], ljobs)]
    /\ lpc' = 3
    /\ UNCHANGED <<listings, ljobs>>
    /\ UNCHANGED <<runvars, rulevars, parsevars, pagevars, msgvars,
                   cleanvars>>

ListingNext ==
    \/ FirstExtraction
    \/ SecondExtraction

\* ------------------------------------------ one message of the loop body
UserIds == {"absent", "7", "9"}

AuthorAnchor == [own |-> TRUE, user_id |-> "7"]

\* What the extractors see of a message without mentions, reactions and
\* emoji images.
PlainMessage ==
    [data_content |-> "post",
     anchors |-> <<AuthorAnchor>>,
     reactions |-> [present |-> FALSE, bdi |-> 0, text |-> <<>>],
     smilies |-> <<>>,
     periods |-> 0,
     last_edit |-> FALSE,
     quotes |-> <<>>,
     spoilers |-> 0]

\* The username anchors of a message: the author's own anchor, when the
\* message has one, comes first (it stands in the message header), the
\* mention anchors of the text follow.
AnchorLists ==
    UNION { { l \in [1..n -> [own : BOOLEAN, user_id : UserIds]] :
                \A i \in 1..n : l[i].own => i = 1 } : n \in 0..MaxAnchors }

\* The text of the reactions element beside the listed names.
LikeTexts ==
    { <<>>,
      <<"u", "n", "d", " ", "5", " ", "w", "e", "i", "t", "e", "r", "e">>,
      <<"u", "n", "d", " ", "1", "2", " ", "w", "e", "i", "t", "e", "r", "e">>,
      <<"u", "n", "d", " ", "w", "e", "i", "t", "e", "r", "e">>,
      <<"5", " ", "u", "n", "d", " ", "2">> }

ReactionBars ==
    { [present |-> FALSE, bdi |-> 0, text |-> <<>>] } \cup
    [present : {TRUE}, bdi : 0..MaxNames, text : LikeTexts]

SmilieLists ==
    UNION { [1..n -> [shortname : {"absent", ":a", ":b"}, noisy : BOOLEAN]] :
              n \in 0..MaxSmilies }

\* The quote blocks of a message, each with the quoted author's name.
QuoteLists ==
    UNION { [1..n -> [data_quote : {"absent", "Anna", "Bert"}]] :
              n \in 0..MaxQuotes }

\* The messages of the loop: the plain message with one kind of node varied.
Messages ==
    { [PlainMessage EXCEPT !.data_content = d] : d \in {"post", "other", "absent"} }
    \cup { [PlainMessage EXCEPT !.anchors = l] : l \in AnchorLists }
    \cup { [PlainMessage EXCEPT !.reactions = b] : b \in ReactionBars }
    \cup { [PlainMessage EXCEPT !.smilies = l] : l \in SmilieLists }
    \cup { [PlainMessage EXCEPT !.last_edit = e, !.quotes = q, !.spoilers = n] :
               e \in BOOLEAN, q \in QuoteLists, n \in 0..MaxSpoilers }

\* content is the text read from the content tag, as what it holds of the
\* nodes followed here.
EmptyRow ==
    [post_id |-> "", author_id |-> "", is_edited |-> FALSE,
     quote_count |-> 0, quoted_list |-> <<>>, spoiler_count |-> 0,
     mentioned_list |-> <<>>,
     mentions_count |-> 0, like_count |-> 0,
     emoji_frequency_mapping |-> <<>>, emoji_count |-> 0,
     content |-> [periods |-> 0, quotes |-> 0, last_edit |-> FALSE]]

MessageInit ==
    /\ message \in Messages
    /\ unmodified_message = PlainMessage
    /\ row = EmptyRow
    /\ appended = <<>>
    /\ merr = ""
    /\ mpc = "ids"

\* post_id = get_post_id(message)
GetPostId ==
    /\ mpc = "ids"
    /\ LET res == get_post_id(message)
       IN  IF res.status = "ok"
           THEN row' = [row EXCEPT !.post_id = res.val] /\ mpc' = "view"
                /\ merr' = merr
           ELSE row' = row /\ mpc' = "raised" /\ merr' = res.status
    /\ UNCHANGED <<message, unmodified_message, appended>>
    /\ UNCHANGED <<runvars, rulevars, parsevars, pagevars, listvars,
                   cleanvars>>

\* unmodified_message = copy.copy(message) and the columns read from it;
\* the KeyError of get_list_of_quoted_usernames ends the loop.
UnmodifiedView ==
    /\ mpc = "view"
    /\ unmodified_message' = message
    /\ LET quoted == get_list_of_quoted_usernames(message)
       IN  IF quoted.status = "ok"
           THEN /\ row' = [row EXCEPT
                     !.author_id = get_author_id(message),
                     !.is_edited = has_edited_message(message),
                     !.quote_count = get_amount_of_quotes(message),
                     !.quoted_list = quoted.val,
                     !.spoiler_count = get_amount_of_spoilers(message),
                     !.mentioned_list = get_list_of_mentioned_ids(message),
                     !.mentions_count = Len(get_list_of_mentioned_ids(message))]
                /\ mpc' = "likes" /\ merr' = merr
           ELSE row' = row /\ mpc' = "raised" /\ merr' = quoted.status
    /\ UNCHANGED <<message, appended>>
    /\ UNCHANGED <<runvars, rulevars, parsevars, pagevars, listvars,
                   cleanvars>>

\* like_count = get_amount_of_likes(message)  # modifies
CountLikes ==
    /\ mpc = "likes"
    /\ row' = [row EXCEPT !.like_count = get_amount_of_likes(message)]
    /\ message' = likes_decomposed(message)
    /\ mpc' = "noise"
    /\ UNCHANGED <<unmodified_message, appended, merr>>
    /\ UNCHANGED <<runvars, rulevars, parsevars, pagevars, listvars,
                   cleanvars>>

\* clean_noisy_tags(message)  # modifies
CleanNoisyTags ==
    /\ mpc = "noise"
    /\ message' = clean_noisy_tags(message)
    /\ mpc' = "tally"
    /\ UNCHANGED <<unmodified_message, row, appended, merr>>
    /\ UNCHANGED <<runvars, rulevars, parsevars, pagevars, listvars,
                   cleanvars>>

\* emoji_frequency_mapping = get_mapping_of_emojis_and_frequency(message);
\* emoji_count = sum(...)
TallyEmojis ==
    /\ mpc = "tally"
    /\ LET res == get_mapping_of_emojis_and_frequency(message)
       IN  IF res.status = "ok"
           THEN /\ row' = [row EXCEPT !.emoji_frequency_mapping = res.items,
                                      !.emoji_count = sum_values(res.items)]
                /\ mpc' = "emojis" /\ merr' = merr
           ELSE row' = row /\ mpc' = "raised" /\ merr' = res.status
    /\ UNCHANGED <<message, unmodified_message, appended>>
    /\ UNCHANGED <<runvars, rulevars, parsevars, pagevars, listvars,
                   cleanvars>>

\* clean_emojis(message)  # modifies
CleanEmojis ==
    /\ mpc = "emojis"
    /\ message' = clean_emojis(message)
    /\ mpc' = "content"
    /\ UNCHANGED <<unmodified_message, row, appended, merr>>
    /\ UNCHANGED <<runvars, rulevars, parsevars, pagevars, listvars,
                   cleanvars>>

\* content = content_tag.get_text().strip()
GetText ==
    /\ mpc = "content"
    /\ row' = [row EXCEPT !.content = [periods |-> message.periods,
                                       quotes |-> Len(message.quotes),
                                       last_edit |-> message.last_edit]]
    /\ mpc' = "append"
    /\ UNCHANGED <<message, unmodified_message, appended, merr>>
    /\ UNCHANGED <<runvars, rulevars, parsevars, pagevars, listvars,
                   cleanvars>>

\* series_list.append(message_series)
AppendSeries ==
    /\ mpc = "append"
    /\ appended' = Append(appended, row)
    /\ mpc' = "done"
    /\ UNCHANGED <<message, unmodified_message, row, merr>>
    /\ UNCHANGED <<runvars, rulevars, parsevars, pagevars, listvars,
                   cleanvars>>

\* ------------------------------------------- clean_emojis called twice
\* A message with emoji images; some stand inside tags the first cleaning
\* pass would remove, some lack data-shortname.
CleanInit ==
    /\ node \in { [PlainMessage EXCEPT !.smilies = l] : l \in SmilieLists }
    /\ once = PlainMessage
    /\ cpc = 0

\* clean_emojis(message)
CleanOnce ==
    /\ cpc = 0
    /\ node' = clean_emojis(node)
    /\ once' = clean_emojis(node)
    /\ cpc' = 1
    /\ UNCHANGED <<runvars, rulevars, parsevars, pagevars, listvars, msgvars>>

\* clean_emojis(message), on the message the first call left
CleanTwice ==
    /\ cpc = 1
    /\ node' = clean_emojis(node)
    /\ cpc' = 2
    /\ UNCHANGED once
    /\ UNCHANGED <<runvars, rulevars, parsevars, pagevars, listvars, msgvars>>

CleanNext ==
    \/ CleanOnce
    \/ CleanTwice

MessageNext ==
    \/ GetPostId
    \/ UnmodifiedView
    \/ CountLikes
    \/ CleanNoisyTags
    \/ TallyEmojis
    \/ CleanEmojis
    \/ GetText
    \/ AppendSeries

\* ------------------------------------------------------- specifications
\* No run of the command line: the run variables stay as they are.
RunIdle ==
    /\ path = {}
    /\ args = [path |-> "directory", pagerange |-> <<>>, postrange |-> <<>>,
               jobs |-> 1]
    /\ pc = "idle"
    /\ range_arg = [pagerange |-> None, postrange |-> None]
    /\ jobs = 0
    /\ iterable = <<>>
    /\ wstate = <<>>
    /\ dfs = <<>>
    /\ finished = <<>>
    /\ df = <<>>
    /\ err = ""
    /\ output = <<>>

\* No message in the text steps.
RulesIdle ==
    /\ text = <<>>
    /\ caller = "construct_dataframe"
    /\ rpc = "idle"
    /\ content = <<>>
    /\ words = <<>>
    /\ word_count = 0
    /\ compliance = <<>>
    /\ rulebreak_reasons = <<>>
    /\ is_rules_compliant = FALSE

\* No call of parse_range.
ParseIdle ==
    /\ rangestring = <<>>
    /\ parts = <<>>
    /\ nums = <<>>
    /\ parsed = None
    /\ perr = ""
    /\ ppc = "idle"

\* No call of the page arithmetic.
PagesIdle ==
    /\ post_num = 0
    /\ page_num = 0
    /\ first_post = 0
    /\ last_post = 0
    /\ next_page = [first |-> 0, last |-> 0]
    /\ gpc = "idle"

\* No pair of runs.
ListingIdle ==
    /\ listings = <<>>
    /\ ljobs = 1
    /\ tables = <<>>
    /\ lpc = 0

\* No message in the loop body.
MessageIdle ==
    /\ message = PlainMessage
    /\ unmodified_message = PlainMessage
    /\ row = EmptyRow
    /\ appended = <<>>
    /\ merr = ""
    /\ mpc = "idle"

CleanIdle ==
    /\ node = PlainMessage
    /\ once = PlainMessage
    /\ cpc = 0 - 1

UnitIdle == ParseIdle /\ PagesIdle /\ ListingIdle /\ MessageIdle /\ CleanIdle

Init == RunInit /\ RulesIdle /\ UnitIdle

Next == RunNext

\* One run of the extractor command line.
Spec == Init /\ [][Next]_vars

InitRules == RulesInit /\ RunIdle /\ UnitIdle

\* The text steps of one message, or one direct call of rules_reworked.
SpecRules == InitRules /\ [][RulesNext]_vars

InitCall == CallInit /\ RulesIdle /\ UnitIdle

\* One direct call of scraper.construct_dataframe.
SpecCall == InitCall /\ [][DirectCall]_vars

InitParse ==
    ParseInit /\ RunIdle /\ RulesIdle /\ PagesIdle /\ ListingIdle /\ MessageIdle
        /\ CleanIdle

\* One call of parse_range on a range string.
SpecParse == InitParse /\ [][ParseNext]_vars

InitPages ==
    PagesInit /\ RunIdle /\ RulesIdle /\ ParseIdle /\ ListingIdle /\ MessageIdle
        /\ CleanIdle

\* The page arithmetic applied to one post number.
SpecPages == InitPages /\ [][PagesNext]_vars

InitListing ==
    ListingInit /\ RunIdle /\ RulesIdle /\ ParseIdle /\ PagesIdle /\ MessageIdle
        /\ CleanIdle

\* Two runs without range flags on one unchanged directory.
SpecListing == InitListing /\ [][ListingNext]_vars

InitMessage ==
    MessageInit /\ RunIdle /\ RulesIdle /\ ParseIdle /\ PagesIdle /\ ListingIdle
        /\ CleanIdle

\* One message in the loop body of construct_dataframe.
SpecMessage == InitMessage /\ [][MessageNext]_vars

InitClean ==
    CleanInit /\ RunIdle /\ RulesIdle /\ ParseIdle /\ PagesIdle /\ ListingIdle
        /\ MessageIdle

\* clean_emojis called twice on one message.
SpecClean == InitClean /\ [][CleanNext]_vars

\* ------------------------------------------------------ claims on the run
\* The run took the parallel branch (jobs != 1).
Parallel == args.jobs # 1

\* The run has a table: the output step is next or has run.
HasTable == pc \in {"output", "done"}

PostNums(t) == {t[k].post_num : k \in 1..Len(t)}

\* The post numbers of all messages of the page files of the directory.
DirectoryPosts(entries) ==
    UNION {{e.posts[k] : k \in 1..Len(e.posts)} : e \in {f \in entries : ~f.is_dir}}

\* C1: for every worker count W >= 2 and every selector, the partitioned,
\* concatenated and sorted table holds the same records in the same post_num
\* order as the single-worker run over the same directory and selector,
\* also when the selection yields no chunk at all.
C1_PartitionedEqualsSingleWorker ==
    LET single == construct_dataframe(path, range_arg.pagerange, range_arg.postrange)
    IN  (args.jobs >= 2 /\ pc \in {"pool", "crashed", "output", "done"}
            /\ single.status = "ok")
        => /\ pc # "crashed"
           /\ HasTable => df = sort_values(single.df)

\* C2: in parallel mode, whatever the order in which the workers finish, the
\* table handed to the output step has strictly increasing post_num, and no
\* post_num is in the tables of two partitions.
C2_FinalTableStrictlyIncreasing ==
    /\ (Parallel /\ HasTable) =>
          \A k \in 1..(Len(df) - 1) : df[k].post_num < df[k + 1].post_num
    /\ \A i, j \in 1..Len(dfs) :
          i # j => PostNums(dfs[i]) \cap PostNums(dfs[j]) = {}

\* Two workers finished in the reverse of the chunk order, each with records.
C2_Witness ==
    /\ Parallel /\ pc = "output"
    /\ Len(finished) >= 2 /\ finished[1] > finished[2]
    /\ Len(dfs[1]) > 0 /\ Len(dfs[2]) > 0
    /\ Len(df) = Len(dfs[1]) + Len(dfs[2])

\* Every message of the directory whose post_num is in the post-range
\* selector has a record in the table.
SelectedPostsPresent(entries, postrange, table) ==
    \A p \in DirectoryPosts(entries) : In(p, postrange) => p \in PostNums(table)

\* C3: the page-level prefilter of a post-range selector (a range, or a chunk
\* list in parallel mode) never skips a file that holds a selected message,
\* so every selected message of the directory yields a record.
C3_PrefilterConservative ==
    /\ (~Parallel /\ HasTable /\ Truthy(range_arg.postrange))
          => SelectedPostsPresent(path, range_arg.postrange, df)
    /\ \A i \in 1..Len(dfs) :
          (wstate[i] = "done" /\ Truthy(iterable[i].postrange))
          => SelectedPostsPresent(path, iterable[i].postrange, dfs[i])

\* C4: every record of the table satisfies the active selector, for every
\* range parse_range returns; a range that denotes no value gives an empty
\* table.
C4_RecordsSatisfySelector ==
    HasTable =>
        /\ range_arg.pagerange.kind # "None" =>
              \A k \in 1..Len(df) : In(df[k].page_num, range_arg.pagerange)
        /\ range_arg.postrange.kind # "None" =>
              \A k \in 1..Len(df) : In(df[k].post_num, range_arg.postrange)

PageNumNeverDecreases(t) ==
    \A k \in 1..(Len(t) - 1) : t[k].page_num <= t[k + 1].page_num

\* C5: construct_dataframe visits the page files in ascending numeric page
\* order: in the table of one partition and in the single-worker table
\* page_num never decreases from one row to the next.
C5_PagesVisitedAscending ==
    /\ (~Parallel /\ HasTable) => PageNumNeverDecreases(df)
    /\ \A i \in 1..Len(dfs) : PageNumNeverDecreases(dfs[i])

\* C6: every record satisfies page_num == ceil(post_num / 20).
C6_PageNumIsPageOfPostNum ==
    /\ \A k \in 1..Len(df) :
          df[k].page_num = get_page_for_message(df[k].post_num)
    /\ \A i \in 1..Len(dfs) : \A k \in 1..Len(dfs[i]) :
          dfs[i][k].page_num = get_page_for_message(dfs[i][k].post_num)

\* A finished run whose table holds records of a page with a two-digit number
\* and of a page with a one-digit number.
C6_Witness ==
    /\ pc = "done"
    /\ \E k \in 1..Len(output) : output[k].page_num >= 10
    /\ \E k \in 1..Len(output) : output[k].page_num < 10

\* ------------------------------------------------ claims on the text steps
\* The three rules in their fixed order.
RuleOrder == << "word_count", "first_letter", "punctuation" >>

\* result[key] of the dict rules_reworked returned.
Value(result, key) ==
    result[CHOOSE i \in 1..Len(result) : result[i].k = key].v

\* rules_reworked has returned for the message.
Checked == rpc \in {"checked", "record"}

\* C7: is_rules_compliant is true exactly when rulebreak_reasons is empty,
\* and rulebreak_reasons is the list of the rules whose result is false in the
\* mapping rules_reworked returned, without duplicates, in the order
\* word_count, first_letter, punctuation.
C7_ReasonsAreTheFailedRules ==
    rpc = "record" =>
        /\ is_rules_compliant = (Len(rulebreak_reasons) = 0)
        /\ {compliance[i].k : i \in 1..Len(compliance)}
              = {RuleOrder[i] : i \in 1..Len(RuleOrder)}
        /\ rulebreak_reasons
              = SelectSeq(RuleOrder, LAMBDA rule : ~Value(compliance, rule))

\* A record with two of the three rules failed.
C7_Witness ==
    rpc = "record" /\ rulebreak_reasons = << "word_count", "punctuation" >>

\* C8: content made only of ordinary and extended whitespace (empty after
\* trimming both) has all three rules failed whatever word_count is passed,
\* and its record has rulebreak_reasons == [word_count, first_letter,
\* punctuation] and is_rules_compliant == false.
C8_WhitespaceOnlyFailsAllRules ==
    (Checked /\ \A i \in 1..Len(content) :
                    content[i] \in (WhitespaceChars \cup WHITESPACES))
    => /\ \A i \in 1..Len(compliance) : ~compliance[i].v
       /\ rpc = "record" => (rulebreak_reasons = RuleOrder /\ ~is_rules_compliant)

\* The first letter of t is uppercase.
FirstLetterUppercase(t) ==
    \E i \in 1..Len(t) :
        /\ IsLetter(t[i]) /\ isupper(t[i])
        /\ \A j \in 1..(i - 1) : ~IsLetter(t[j])

\* C9: for non-empty content the word_count rule fails iff the word count is
\* below 5 and the first_letter rule fails iff the trimmed content has no
\* letter or its first letter is not uppercase, each whatever the other rules
\* give; content of at least 5 words with an uppercase first letter and a
\* trailing "?" passes all three rules, and content "hallo" fails all three.
C9_RulesAreIndependent ==
    Checked =>
        LET t == stripped_content(content) IN
        /\ Len(t) > 0 =>
              /\ ~Value(compliance, "word_count") <=> word_count < 5
              /\ ~Value(compliance, "first_letter") <=> ~FirstLetterUppercase(t)
        /\ ( /\ word_count >= 5 /\ FirstLetterUppercase(t)
             /\ Len(content) > 0 /\ content[Len(content)] = "?" )
           => \A i \in 1..Len(compliance) : compliance[i].v
        /\ (content = hallo /\ word_count = Len(split_words(hallo)))
           => \A i \in 1..Len(compliance) : ~compliance[i].v

\* The record of "Hallo Welt wie geht es dir?": compliant.
C9_Witness ==
    /\ rpc = "record" /\ content = HalloWelt
    /\ word_count >= 5 /\ is_rules_compliant

\* C10 as claimed: for non-empty content the punctuation rule passes iff the
\* last character of the content as passed to rules_reworked, before the
\* trimming, is in the punctuation set or is an emoji glyph.
C10_PunctuationOnUntrimmedContent ==
    (Checked /\ Len(stripped_content(content)) > 0) =>
        ( Value(compliance, "punctuation")
          <=> ( \/ content[Len(content)] \in PUNCTUATION
                \/ is_emoji(content[Len(content)]) ) )

\* C10 amended: for non-empty content the punctuation rule passes iff the
\* last character of the content after the two trims of rules_reworked (the
\* ordinary whitespace, then the extended whitespace set) is in the
\* punctuation set or is an emoji glyph.
C10_PunctuationOnTrimmedContent ==
    (Checked /\ Len(stripped_content(content)) > 0) =>
        LET t == stripped_content(content) IN
        ( Value(compliance, "punctuation")
          <=> (t[Len(t)] \in PUNCTUATION \/ is_emoji(t[Len(t)])) )

\* A content whose last character is trimmed away and that passes the
\* punctuation rule on the character before it.
C10_Witness ==
    /\ Checked /\ Len(stripped_content(content)) > 0
    /\ content[Len(content)] \in WHITESPACES
    /\ Value(compliance, "punctuation")

\* ------------------------------------------------- claims on parse_range
\* parse_range has returned or raised.
ParseEnded == ppc \in {"returned", "raised"}

\* The text s between the characters before position i + 1 and after
\* position j - 1 is one comma separated component of s.
IsComponent(s, i, j) ==
    /\ i < j
    /\ i = 0 \/ s[i] = ","
    /\ j = Len(s) + 1 \/ s[j] = ","
    /\ \A k \in (i + 1)..(j - 1) : s[k] # ","

\* The components that are integers, and the integer each one writes.
IntegerTexts == { <<"1">>, <<"2">>, <<"2", "1">>, <<"0">>, <<"-", "1">> }

\* C11: a range string "n1,n2" or "n1,n2,n3" (n3 not 0) is mapped to the
\* half-open arithmetic sequence from n1 in steps of n3 (1 when absent) that
\* stops before n2: its values are exactly the n1 + k*n3 on the near side of
\* n2, in that order; "1,21" gives 1..20 and "1,21,2" gives 1,3,...,19.
C11_RangeIsHalfOpenSequence ==
    ppc = "returned" =>
        LET n1 == nums[1]
            n2 == nums[2]
            n3 == IF Len(nums) = 3 THEN nums[3] ELSE 1
            v == parsed.vals
            lo == (IF n1 < n2 THEN n1 ELSE n2) - 2
            hi == (IF n1 < n2 THEN n2 ELSE n1) + 2
        IN  /\ Len(nums) \in {2, 3}
            /\ \A x \in lo..hi :
                  In(x, parsed) <=>
                      /\ \E k \in 0..(hi - lo) : x = n1 + k * n3
                      /\ n3 > 0 => x < n2
                      /\ n3 < 0 => x > n2
            /\ \A i \in 1..(Len(v) - 1) : v[i + 1] = v[i] + n3
            /\ rangestring = <<"1", ",", "2", "1">> =>
                  v = [i \in 1..20 |-> i]
            /\ rangestring = <<"1", ",", "2", "1", ",", "2">> =>
                  v = [i \in 1..10 |-> 2 * i - 1]

\* "1,21,2" was parsed to a range of ten values.
C11_Witness ==
    /\ ppc = "returned"
    /\ rangestring = <<"1", ",", "2", "1", ",", "2">>
    /\ Len(parsed.vals) = 10

\* C12: parse_range ends with an exception and returns no range for every
\* range string with fewer than 2 or more than 3 comma separated components
\* or with a component that is not an integer. (extractor/__main__.py and
\* visualizer/__main__.py hold the same function.)
C12_InvalidRangeStringRaises ==
    LET s == rangestring
        count == Cardinality({i \in 1..Len(s) : s[i] = ","}) + 1
        non_integer ==
            \E i \in 0..Len(s) : \E j \in 1..(Len(s) + 1) :
                IsComponent(s, i, j) /\ SubSeq(s, i + 1, j - 1) \notin IntegerTexts
    IN  ParseEnded /\ (count \notin {2, 3} \/ non_integer) =>
            ppc = "raised" /\ perr = "ValueError" /\ parsed = None

\* A string of three components, one of them not an integer, was refused.
C12_Witness ==
    /\ ppc = "raised"
    /\ rangestring = <<"1", ",", "x", ",", "2">>
    /\ parsed = None

\* ------------------------------------- claims on the two range arguments
\* C13: a call of construct_dataframe that is given both a page range and a
\* post range ends with an exception and returns no table, whatever the two
\* ranges contain. (On the command line both flags end the run at the flag
\* check, RangeFlagExit, before the directory is read.)
C13_BothRangesRaise ==
    /\ pc \in {"returned", "raised"}
    /\ range_arg.pagerange # None
    /\ range_arg.postrange # None
    => pc = "raised" /\ err = "ValueError" /\ df = <<>>

\* ------------------------------------------ claims on the page arithmetic
\* C14: for a post number p >= 1 the page of p is ceil(p/20), the least n
\* with p <= 20n; p lies between the first and the last post of its page;
\* the post interval of the next page starts right after the last post of
\* this page and shares no post with it.
C14_PageArithmetic ==
    /\ gpc \in {"first", "last", "next", "done"} =>
          /\ post_num <= 20 * page_num
          /\ post_num > 20 * (page_num - 1)
    /\ gpc \in {"next", "done"} =>
          first_post <= post_num /\ post_num <= last_post
    /\ gpc = "done" =>
          /\ next_page.first = last_post + 1
          /\ next_page.first <= next_page.last
          /\ (first_post..last_post) \cap (next_page.first..next_page.last) = {}

\* The last post of a page: post 40 lies on page 2, whose interval is 21..40,
\* and page 3 starts at 41.
C14_Witness ==
    /\ gpc = "done"
    /\ post_num = 40
    /\ page_num = 2
    /\ first_post = 21 /\ last_post = 40
    /\ next_page.first = 41

\* --------------------------------------------------- claims on determinism
\* C15: two runs without range flags on the same unchanged directory end
\* alike and give the same table, the same records in the same row order,
\* in whatever order the file system lists the entries in each run.
C15_SameDirectorySameTable ==
    lpc = 3 => tables[1] = tables[2]

\* Both runs returned the 60 records of three pages although the file system
\* listed the entries in different orders.
C15_Witness ==
    /\ lpc = 3
    /\ listings[1] # listings[2]
    /\ tables[1].status = "ok"
    /\ Len(tables[1].df) = 20 * 3
    /\ tables[2] = tables[1]

\* ------------------------------------------- claims on the message columns
\* The columns of the unmodified view have been computed.
AfterView ==
    mpc \in {"likes", "noise", "tally", "emojis", "content", "append", "done"}

\* like_count has been computed.
AfterLikes == mpc \in {"noise", "tally", "emojis", "content", "append", "done"}

\* The integer written first in the text beside the names, -1 when the text
\* holds none.
ResidualInteger(t) ==
    IF t = <<"u", "n", "d", " ", "5", " ", "w", "e", "i", "t", "e", "r", "e">>
    THEN 5
    ELSE IF t = <<"u", "n", "d", " ", "1", "2", " ", "w", "e", "i", "t", "e", "r", "e">>
    THEN 12
    ELSE IF t = <<"5", " ", "u", "n", "d", " ", "2">> THEN 5
    ELSE 0 - 1

\* like_count of a reactions element with three or more names when every
\* name beyond the residual integer counts as `shown`.
LikesOf(bar, shown) ==
    IF ~bar.present THEN 0
    ELSE IF bar.bdi < 3 THEN bar.bdi
    ELSE IF ResidualInteger(bar.text) < 0 THEN shown
    ELSE ResidualInteger(bar.text) + shown

AuthorAnchorMalformed ==
    \A i \in 1..Len(message.anchors) :
        message.anchors[i].own => message.anchors[i].user_id = "absent"

\* C17: when the author's own username anchor is missing or lacks its user
\* id, author_id is "0", with or without mention anchors in the message, and
\* the loop does not end with an exception.
C17_AuthorIdSentinel ==
    AuthorAnchorMalformed =>
        /\ merr = ""
        /\ AfterView => row.author_id = "0"

\* The ids of the mention anchors (the username anchors that are not the
\* author's own) in document order, "0" for a missing id.
MentionIds(m) ==
    LET mentions == SelectSeq(m.anchors, LAMBDA a : ~a.own)
    IN  [i \in 1..Len(mentions) |->
            IF mentions[i].user_id = "absent" THEN "0" ELSE mentions[i].user_id]

\* C18: mentioned_list holds one entry per mention anchor, in document
\* order, the anchor's user id or "0", and mentions_count is its length.
C18_MentionedListIsMentionAnchors ==
    AfterView =>
        /\ row.mentioned_list = MentionIds(message)
        /\ row.mentions_count = Len(row.mentioned_list)

\* The message as parsed, before any step modified it.
AsParsed == IF mpc \in {"ids", "view"} THEN message ELSE unmodified_message

\* C19: an emoji image node without its data-shortname is skipped: the loop
\* does not end with an exception, the record is produced, and the node adds
\* nothing to emoji_frequency_mapping and emoji_count.
C19_MalformedEmojiSkipped ==
    LET sm == AsParsed.smilies
        counted == {i \in 1..Len(sm) : ~sm[i].noisy /\ sm[i].shortname # "absent"}
    IN  (\E i \in 1..Len(sm) : sm[i].shortname = "absent") =>
            /\ merr = ""
            /\ mpc # "raised"
            /\ mpc = "done" =>
                  /\ Len(appended) = 1
                  /\ row.emoji_count = Cardinality(counted)
                  /\ \A n \in 1..Len(row.emoji_frequency_mapping) :
                        row.emoji_frequency_mapping[n].k # "absent"

\* ------------------------------------- claims on a message without its id
\* The post numbers of the messages whose data-content holds no post id.
PostsWithoutId(entries) ==
    UNION { {e.posts[i] : i \in {j \in 1..Len(e.posts) : e.data_content[j] # "post"}} :
              e \in entries }

\* The directory with those messages taken out of their page files.
WithoutThoseMessages(entries) ==
    { LET idx == SelectSeq([i \in 1..Len(e.posts) |-> i],
                           LAMBDA i : e.data_content[i] = "post")
      IN  [e EXCEPT !.posts = [k \in 1..Len(idx) |-> e.posts[idx[k]]],
                    !.data_content = [k \in 1..Len(idx) |-> "post"]] :
      e \in entries }

\* C20: a message without its content id never yields a record. The run
\* either ends with an exception and without a table, or it passes over the
\* message (with its page file) and the table is the one the same run
\* gives when the message is absent.
C20_NoRecordWithoutContentId ==
    LET absent == WithoutThoseMessages(path)
        chunk_df(i) == construct_dataframe(absent, iterable[i].pagerange,
                                           iterable[i].postrange).df
    IN  PostsWithoutId(path) # {} =>
        /\ PostsWithoutId(path) \cap (PostNums(df) \cup PostNums(output)) = {}
        /\ \A i \in 1..Len(dfs) : PostsWithoutId(path) \cap PostNums(dfs[i]) = {}
        /\ pc = "crashed" => df = <<>> /\ output = <<>>
        /\ HasTable /\ ~Parallel =>
              df = construct_dataframe(absent, range_arg.pagerange,
                                       range_arg.postrange).df
        /\ HasTable /\ Parallel =>
              df = sort_values(concat([i \in 1..Len(iterable) |-> chunk_df(i)]))

\* The run read page 2, whose second message has no data-content attribute,
\* and ended with KeyError and without a table.
C20_Witness ==
    /\ BrokenPageFile(2, "absent") \in path
    /\ pc = "crashed"
    /\ err = "KeyError"
    /\ df = <<>>
    /\ output = <<>>

\* ------------------------------------------------ claims on the source path
\* C21: when --path names nothing or names something that is not a
\* directory, the run (sequential or parallel) ends in the reported fatal
\* error: the invalid-path message is printed, the program exits with a
\* non-zero status and no table is output.
C21_InvalidPathReported ==
    /\ args.path # "directory"
    /\ ~(Len(args.pagerange) > 0 /\ Len(args.postrange) > 0)
    /\ pc \notin {"start", "dispatch"}
    => /\ pc = "exit"
       /\ err = "FileNotFoundError"
       /\ df = <<>>
       /\ output = <<>>

\* ------------------------------------------------ claims on partial output
\* The state part of C22.
NoPartialOutput ==
    /\ Parallel /\ pc \in {"output", "done"} =>
          /\ \A i \in 1..Len(wstate) : wstate[i] = "done"
          /\ df = sort_values(concat(dfs))
    /\ pc = "done" => output = df
    /\ pc # "done" => output = <<>>
    /\ pc \in {"crashed", "exit"} =>
          \A i \in 1..Len(wstate) : wstate[i] \notin {"queued", "running"}

\* C22: the table is written only after every worker has returned its
\* table; when a worker fails or the run is interrupted before that, no
\* worker stays outstanding, nothing is written, and nothing is written
\* later either.
C22_NoOutputUnlessAllPartitionsDone ==
    /\ []NoPartialOutput
    /\ [][(pc \in {"crashed", "exit"}) => (pc' = pc /\ output' = output)]_vars

\* An interrupt ended a run in which one worker had returned its table and
\* another was still outstanding; nothing was written.
C22_Witness ==
    /\ pc = "crashed"
    /\ err = "KeyboardInterrupt"
    /\ \E i \in 1..Len(wstate) : wstate[i] = "done" /\ Len(dfs[i]) > 0
    /\ \E i \in 1..Len(wstate) : wstate[i] = "terminated"
    /\ output = <<>>

\* ------------------------------------------------ claims on the tokenizer
Tokenized == caller = "construct_dataframe" /\ rpc \in {"words", "checked", "record"}

Separators == WhitespaceChars \cup PUNCTUATION

\* The positions of content where a run of non-separator characters starts
\* that holds a word character.
WordRunStarts ==
    {i \in 1..Len(content) :
        /\ content[i] \notin Separators
        /\ (i = 1 \/ content[i - 1] \in Separators)
        /\ \E j \in i..Len(content) :
              /\ IsWordChar(content[j])
              /\ \A k \in i..j : content[k] \notin Separators}

RemainingSmilies == SelectSeq(AsParsed.smilies, LAMBDA e : ~e.noisy)

\* The emoji tally has been taken.
AfterTally == mpc \in {"emojis", "content", "append", "done"}

\* The steps of the loop body, each with the step that follows it.
StepOrder ==
    { <<"ids", "view">>, <<"view", "likes">>, <<"likes", "noise">>,
      <<"noise", "tally">>, <<"tally", "emojis">>, <<"emojis", "content">>,
      <<"content", "append">>, <<"append", "done">>,
      <<"ids", "raised">>, <<"view", "raised">>, <<"tally", "raised">> }

\* The state part of C25.
TallyBetweenThePasses ==
    /\ mpc = "tally" =>
          /\ message.smilies = RemainingSmilies
          /\ message.periods = 0
    /\ AfterTally =>
          /\ row.emoji_count = Len(RemainingSmilies)
          /\ row.emoji_count = sum_values(row.emoji_frequency_mapping)
    /\ mpc = "emojis" => message.periods = 0
    /\ mpc \in {"content", "append", "done"} =>
          /\ message.smilies = <<>>
          /\ message.periods = row.emoji_count
    /\ mpc \in {"append", "done"} => row.content.periods = row.emoji_count

\* C25: for a message the steps run in the order first cleaning pass, emoji
\* tally, emoji neutralization, content read; the tally sees the emoji
\* images the first cleaning pass left and no inserted period, emoji_count
\* is their number and the sum of the values of emoji_frequency_mapping, and
\* the content read sees one period for each.
C25_TallyAfterNoiseBeforeNeutralization ==
    /\ []TallyBetweenThePasses
    /\ [][(mpc' # mpc) => (<<mpc, mpc'>> \in StepOrder)]_vars

\* A record of a message with two emoji images in its text and one inside a
\* removed tag: emoji_count is 2.
C25_Witness ==
    /\ mpc = "done"
    /\ appended = <<row>>
    /\ Len(AsParsed.smilies) = 3
    /\ Len(RemainingSmilies) = 2
    /\ row.emoji_count = 2
    /\ row.content.periods = 2

\* ---------------------------------- claims on the unmodified view
\* C26: the columns of the unmodified view and like_count have the values
\* of the message as parsed (is_edited is its edit marker, quote_count and
\* the length of quoted_list the number of its quote blocks, quoted_list
\* their names in order), the message still holds those nodes until the
\* first cleaning pass, which removes them, and the content read holds none
\* of them.
C26_UnmodifiedViewBeforeCleaning ==
    /\ AfterView =>
          /\ row.is_edited = unmodified_message.last_edit
          /\ row.quote_count = Len(unmodified_message.quotes)
          /\ Len(row.quoted_list) = Len(unmodified_message.quotes)
          /\ \A i \in 1..Len(row.quoted_list) :
                row.quoted_list[i] = unmodified_message.quotes[i].data_quote
          /\ row.spoiler_count = unmodified_message.spoilers
          /\ row.author_id = get_author_id(unmodified_message)
          /\ row.mentioned_list = get_list_of_mentioned_ids(unmodified_message)
    /\ AfterLikes =>
          row.like_count = LikesOf(unmodified_message.reactions,
                                   unmodified_message.reactions.bdi)
    /\ mpc \in {"likes", "noise"} =>
          /\ message.quotes = unmodified_message.quotes
          /\ message.last_edit = unmodified_message.last_edit
    /\ mpc \in {"tally", "emojis", "content", "append", "done"} =>
          /\ message.quotes = <<>>
          /\ ~message.last_edit
    /\ mpc \in {"append", "done"} =>
          /\ row.content.quotes = 0
          /\ ~row.content.last_edit

\* A record of an edited message with two quote blocks.
C26_Witness ==
    /\ mpc = "done"
    /\ appended = <<row>>
    /\ row.is_edited
    /\ row.quote_count = 2
    /\ row.quoted_list = <<"Anna", "Bert">>
    /\ message.quotes = <<>>
    /\ ~message.last_edit

\* ------------------------------------------- claims on clean_emojis
\* C23: after one call of clean_emojis no emoji image node is left in the
\* message, and a second call leaves the message as the first call left it:
\* no further period, no node removed.
C23_CleanEmojisIdempotent ==
    /\ cpc >= 1 => node.smilies = <<>>
    /\ cpc = 1 => node = once
    /\ cpc = 2 => /\ node = once
                  /\ node.periods = once.periods

\* The first call put three periods for three emoji images, the second call
\* has run.
C23_Witness ==
    /\ cpc = 2
    /\ once.periods = 3
    /\ once.smilies = <<>>
    /\ node = once

\* ------------------------------------------- claims on the partitioning
\* The values the run selects: those of the range flag given, every page
\* of the directory without one.
Selected ==
    IF Len(args.pagerange) > 0 THEN range_arg.pagerange.vals
    ELSE IF Len(args.postrange) > 0 THEN range_arg.postrange.vals
    ELSE full_page_range(path).vals

\* The chunk in the argument list of worker i.
ChunkOf(i) ==
    IF iterable[i].postrange.kind # "None"
    THEN iterable[i].postrange.vals
    ELSE iterable[i].pagerange.vals

\* The chunks have been built for the pool.
Partitioned == pc \in {"pool", "output", "done"} /\ Parallel

\* C27: for a worker count W >= 2 and n selected values the chunks are
\* non-empty, their concatenation in order is the selected sequence (so
\* they are contiguous and disjoint), their sizes differ by at most 1, and
\* their number, the effective worker count, is min(W, n).
C27_ChunksPartitionSelection ==
    Partitioned /\ args.jobs >= 2 =>
        LET n == Len(Selected)
            k == Len(iterable)
        IN  /\ \A i \in 1..k : Len(ChunkOf(i)) > 0
            /\ concat([i \in 1..k |-> ChunkOf(i)]) = Selected
            /\ \A i, j \in 1..k : Len(ChunkOf(i)) - Len(ChunkOf(j)) <= 1
            /\ k = (IF args.jobs < n THEN args.jobs ELSE n)
            /\ jobs = k

\* ------------------------------------------- claims on the worker count
\* C28 as stated: a requested worker count of 1 or less, 0 and negative
\* values included, gives no partitioning: no chunk is built, no worker is
\* started, and the table is the one of a single call of
\* construct_dataframe.
C28_NoPartitioningUpToOne ==
    args.jobs <= 1 =>
        /\ pc # "pool"
        /\ iterable = <<>>
        /\ wstate = <<>>
        /\ pc \in {"output", "done"} =>
              df = construct_dataframe(path, range_arg.pagerange,
                                       range_arg.postrange).df

\* C28 as the code has it: only the worker count 1 gives the single
\* sequential call without chunks and workers; with 0 or a negative count
\* the run takes the parallel branch with as many workers as the machine
\* has cores, at most one per chunk, and every table it outputs was put
\* together from the tables of workers.
C28_SequentialOnlyForOne ==
    /\ args.jobs = 1 =>
          /\ pc # "pool"
          /\ iterable = <<>>
          /\ wstate = <<>>
          /\ pc \in {"output", "done"} =>
                df = construct_dataframe(path, range_arg.pagerange,
                                         range_arg.postrange).df
    /\ args.jobs < 1 /\ pc \in {"pool", "output", "done"} =>
          /\ jobs \in 0..MaxCpu
          /\ Len(iterable) = jobs
          /\ Len(wstate) = jobs
    /\ args.jobs < 1 /\ pc \in {"output", "done"} =>
          /\ Len(wstate) >= 1
          /\ \A i \in 1..Len(wstate) : wstate[i] = "done"
          /\ df = sort_values(concat(dfs))

\* A run with --jobs 0 on a machine with two cores wrote the table of two
\* workers.
C28_Witness ==
    /\ args.jobs = 0
    /\ pc = "done"
    /\ Len(wstate) = 2
    /\ \A i \in 1..2 : wstate[i] = "done" /\ Len(dfs[i]) > 0
    /\ output = df

\* ------------------------- claims on messages outside the post range
\* The file without its messages outside the post range.
InsideOnly(file, postrange) ==
    LET keep == SelectSeq([i \in 1..Len(file.posts) |-> i],
                    LAMBDA i : In(file.posts[i], postrange))
    IN  [file EXCEPT !.posts = [n \in 1..Len(keep) |-> file.posts[keep[n]]],
                     !.data_content =
                         [n \in 1..Len(keep) |-> file.data_content[keep[n]]]]

\* The directory without the messages outside the post range of the run.
WithoutOutside == {InsideOnly(file, range_arg.postrange) : file \in path}

\* What the calls of this run give on the directory `entries`: the single
\* call of a sequential run, the calls of the workers put together in a
\* parallel one.
OutcomeOn(entries) ==
    IF ~Parallel
    THEN construct_dataframe(entries, range_arg.pagerange, range_arg.postrange)
    ELSE LET res == [i \in 1..Len(iterable) |->
                        construct_dataframe(entries, iterable[i].pagerange,
                                            iterable[i].postrange)]
         IN  IF \E i \in 1..Len(res) : res[i].status # "ok"
             THEN [status |-> "raised", df |-> <<>>]
             ELSE IF Len(res) = 0
             THEN [status |-> "ValueError", df |-> <<>>]
             ELSE [status |-> "ok",
                   df |-> sort_values(concat([i \in 1..Len(res) |-> res[i].df]))]

\* The run with a post range has ended in a table or in an exception of its
\* calls.
PostRangeRunEnded ==
    /\ pc \in {"output", "done", "crashed"}
    /\ err # "KeyboardInterrupt"
    /\ args.path = "directory"
    /\ Truthy(range_arg.postrange)

\* The run is as it would be on the directory `entries`.
SameOutcomeOn(entries) ==
    /\ pc \in {"output", "done"} =>
          /\ OutcomeOn(entries).status = "ok"
          /\ df = OutcomeOn(entries).df
    /\ pc = "crashed" => OutcomeOn(entries).status # "ok"

\* A call of the run reads the file: its page passes the page checks.
ReadByRun(file) ==
    IF ~Parallel
    THEN ~file_skipped(file, range_arg.pagerange, range_arg.postrange)
    ELSE \E i \in 1..Len(iterable) :
            ~file_skipped(file, iterable[i].pagerange, iterable[i].postrange)

\* Messages without id outside the post range, on files a call reads.
BrokenOutside ==
    {<<file, i>> \in path \X (1..20) :
        /\ i \in 1..Len(file.posts)
        /\ ReadByRun(file)
        /\ ~In(file.posts[i], range_arg.postrange)
        /\ file.data_content[i] # "post"}

\* C29 as stated: with a post range, the messages outside it have no
\* effect, malformed or not: the run ends as it does on the same pages
\* without them, with the same table, and aborts only if it aborts there.
C29_OutsideSelectorNoEffect ==
    PostRangeRunEnded => SameOutcomeOn(WithoutOutside)

\* C29 as the code has it: with a post range, messages outside it that
\* have their content identifier have no effect (the run ends as it does
\* without them), but every message of a page that is read is asked for its
\* id before the post range is looked at, so no table is produced when a
\* message outside the post range on such a page lacks its id.
C29_WellFormedOutsideSelectorNoEffect ==
    PostRangeRunEnded =>
        /\ BrokenOutside = {} => SameOutcomeOn(WithoutOutside)
        /\ BrokenOutside # {} => pc = "crashed" /\ err \in {"KeyError", "ValueError"}

\* A sequential run with the post range 21,61,3 was ended by post 22 of
\* page 2, which lacks its id and is outside the range.
C29_Witness ==
    /\ PostRangeRunEnded
    /\ ~Parallel
    /\ args.postrange = <<21, 61, 3>>
    /\ BrokenOutside # {}
    /\ pc = "crashed"
    /\ err = "KeyError"

\* ------------------------------------------- claims on subdirectories
\* The entries of the directory that are not subdirectories.
FilesOnly == {e \in path : ~e.is_dir}

\* C30: a subdirectory inside the input directory is skipped whatever its
\* name is: the run, sequential or parallel, does not end with an exception
\* of the listing and ends as it does on the directory without the
\* subdirectory, with the same table.
C30_SubdirectorySkipped ==
    /\ \E e \in path : e.is_dir
    /\ pc \in {"output", "done", "crashed"}
    /\ err # "KeyboardInterrupt"
    => /\ err # "IndexError"
       /\ SameOutcomeOn(FilesOnly)
====
